---- MODULE Spec2Model ----
(***************************************************************************)
(* A model of the klaus-operator KlausInstance reconciler: the reconcile   *)
(* pass (finalizer bootstrap, personality and KlausMCPServer resolution,   *)
(* validation, ordered apply of the dependent objects, status write-back), *)
(* the deletion pass, and the stale MCP secret cleanup, together with the  *)
(* cluster objects they read and write.                                    *)
(*                                                                         *)
(* internal/controller/klausinstance_controller.go holds two revisions of  *)
(* the controller; the model follows the revision of lines 1-803, the one  *)
(* that resolves KlausMCPServer references and that CHANGELOG.md describes *)
(* (early return after adding the finalizer, AvailableReplicas check).     *)
(***************************************************************************)
EXTENDS Integers, Sequences, FiniteSets, TLC

(***************************************************************************)
(* Bounds of the model.                                                    *)
(***************************************************************************)
\* Longest list of KlausMCPServer references in a spec.
MaxRefs == 2

\* Most API calls that fail with a transient error in one pass.
MaxFaults == 1

\* Longest list handed to the merge functions.
MaxList == 2

\* PersonalitySpec structs the calls on one OCI client allocate.
MaxObjects == 4

(***************************************************************************)
(* Program constants.                                                      *)
(***************************************************************************)
\* UserNamespace: sanitizeIdentifier(owner, 50).
NamespaceOwnerMaxLen == 50

\* RequeueAfter (seconds) when the Anthropic API key secret is missing.
RequeueAPIKeySeconds == 30

\* RequeueAfter (seconds) while the Deployment is rolling out.
RequeuePendingSeconds == 5

finalizerName == "klaus.giantswarm.io/finalizer"

InstanceStatePending == "Pending"
InstanceStateRunning == "Running"
InstanceStateError == "Error"

ConditionReady == "Ready"
ConditionConfigReady == "ConfigReady"
ConditionDeploymentReady == "DeploymentReady"
ConditionMCPServerReady == "MCPServerReady"
ConditionTypes == {ConditionReady, ConditionConfigReady, ConditionDeploymentReady, ConditionMCPServerReady}

ConditionTrue == "True"
ConditionFalse == "False"

(***************************************************************************)
(* Names of the modelled objects.                                          *)
(***************************************************************************)
Instances == {"i1", "i2"}
Servers == {"svc-a", "svc-b"}
SecretNames == {"shared", "tok"}
PersonalityName == "p1"

Range(s) == {s[k] : k \in DOMAIN s}

(***************************************************************************)
(* sanitizeIdentifier and UserNamespace. An owner is a sequence of         *)
(* one-character strings.                                                  *)
(***************************************************************************)
ToLower(ch) ==
    CASE ch = "A" -> "a"
      [] ch = "B" -> "b"
      [] OTHER -> ch

SafeChars == {"a", "b", "0", "-"}

ReplaceUnsafe(ch) == IF ch \in SafeChars THEN ch ELSE "-"

Truncate(s, maxLen) == IF Len(s) > maxLen THEN SubSeq(s, 1, maxLen) ELSE s

RECURSIVE TrimLeft(_)
TrimLeft(s) == IF s # <<>> /\ Head(s) = "-" THEN TrimLeft(Tail(s)) ELSE s

RECURSIVE TrimRight(_)
TrimRight(s) ==
    IF s # <<>> /\ s[Len(s)] = "-" THEN TrimRight(SubSeq(s, 1, Len(s) - 1)) ELSE s

sanitizeIdentifier(s, maxLen) ==
    LET lowered == [k \in DOMAIN s |-> ToLower(s[k])]
        replaced == [k \in DOMAIN s |-> ReplaceUnsafe(lowered[k])]
    IN  TrimRight(TrimLeft(Truncate(replaced, maxLen)))

UserNamespace(owner) == <<"klaus-user-">> \o sanitizeIdentifier(owner, NamespaceOwnerMaxLen)

MusterNamespaceDefault == <<"muster">>

(***************************************************************************)
(* Object names and keys. A name is a pair of strings (the parts that the  *)
(* code concatenates); an object key is <<namespace, kind, name>>.         *)
(***************************************************************************)
DeploymentName(i) == <<i, "">>
ServiceName(i) == <<i, "">>
ServiceAccountName(i) == <<i, "">>
ConfigMapName(i) == <<i, "-config">>
PVCName(i) == <<i, "-workspace">>
SecretName(i) == <<i, "-api-key">>
GitSecretName(i) == <<i, "-git-creds">>
MCPServerCRDName(i) == <<"klaus-", i>>

KindDeployment == "Deployment"
KindService == "Service"
KindConfigMap == "ConfigMap"
KindSecret == "Secret"
KindServiceAccount == "ServiceAccount"
KindPVC == "PersistentVolumeClaim"
KindMCPServer == "MCPServer"

(***************************************************************************)
(* Values of the modelled spec fields.                                     *)
(***************************************************************************)
\* All sequences over S of length at most n.
RECURSIVE SeqsUpTo(_, _)
SeqsUpTo(S, n) ==
    IF n = 0 THEN {<<>>}
    ELSE LET shorter == SeqsUpTo(S, n - 1)
         IN  shorter \cup {Append(q, x) : q \in {r \in shorter : Len(r) = n - 1}, x \in S}

\* spec.mcpServers: lists of KlausMCPServer names (a name may repeat).
RefLists == SeqsUpTo(Servers, MaxRefs)

\* A raw MCP server config (runtime.RawExtension) is the set of its
\* <<field, value>> pairs.
InlineConfig == {<<"type", "stdio">>, <<"command", "run">>}

\* An MCPServerSecret: secretName and env (env var name -> Secret key).
SecretRef(name, envVar, key) == [secretName |-> name, env |-> (envVar :> key)]

\* A KlausMCPServerSpec: type, url, command, secretRefs.
ServerSpec(type, url, refs) == [type |-> type, url |-> url, command |-> "", secretRefs |-> refs]

\* The KlausMCPServer objects a cluster may hold under each name.
ServerSpecsOf(s) ==
    IF s = "svc-a"
    THEN {ServerSpec("http", "u-a", <<SecretRef("shared", "TOKEN_A", "k")>>)}
    ELSE {ServerSpec("http", "u-b", <<SecretRef("shared", "TOKEN_B", "k")>>),
          ServerSpec("http", "u-b", <<SecretRef("tok", "TOKEN_B", "k")>>),
          ServerSpec("sse", "u-b", <<>>),
          ServerSpec("sse", "", <<>>)}

\* A KlausPersonalitySpec (the modelled fields).
PersonalitySpec ==
    [mcpServers |-> <<"svc-b">>,
     inlineMCP |-> ("svc-b" :> InlineConfig),
     mcpServerSecrets |-> <<>>,
     plugins |-> <<>>,
     hooks |-> ("PreToolUse" :> InlineConfig),
     settingsFile |-> "",
     model |-> "",
     addDirs |-> <<>>]

\* A KlausInstanceSpec (the modelled fields). personalityRef "" is nil;
\* workspace is "none" (nil), "plain" (no gitSecretRef) or "git".
InstanceSpecs ==
    [owner : {<<"a">>, <<"b">>},
     personalityRef : {"", PersonalityName},
     mcpServers : RefLists,
     inlineMCP : {<<>>, ("svc-a" :> InlineConfig)},
     mcpServerSecrets : {<<>>},
     plugins : {<<>>},
     hooks : {<<>>},
     settingsFile : {"", "settings.json"},
     model : {""},
     addDirs : {<<>>},
     workspace : {"none", "plain", "git"}]

NoCondition == [status |-> "", reason |-> "", message |-> <<"", "">>]

NoConditions == [t \in ConditionTypes |-> NoCondition]

\* An Instance name with no object behind it.
AbsentSpec ==
    [owner |-> <<>>, personalityRef |-> "", mcpServers |-> <<>>, inlineMCP |-> <<>>,
     mcpServerSecrets |-> <<>>, plugins |-> <<>>, hooks |-> <<>>, settingsFile |-> "",
     model |-> "", addDirs |-> <<>>, workspace |-> "none"]

AbsentInstance ==
    [exists |-> FALSE, deleting |-> FALSE, finalizer |-> FALSE, spec |-> AbsentSpec,
     state |-> "", conditions |-> NoConditions, mcpServerCount |-> 0]

\* A KlausMCPServer that its controller has not reconciled yet.
NewServer(spec) == [exists |-> TRUE, spec |-> spec, ready |-> "", readyMessage |-> ""]

AbsentServer ==
    [exists |-> FALSE, spec |-> ServerSpec("", "", <<>>), ready |-> "", readyMessage |-> ""]

(***************************************************************************)
(* The cluster.                                                            *)
(***************************************************************************)
VARIABLES
    instances,    \* KlausInstance objects of the operator namespace, by name
    servers,      \* KlausMCPServer objects of the operator namespace, by name
    opSecrets,    \* names of the Secrets of the operator namespace (MCP sources)
    apiKey,       \* the Anthropic API key Secret: "absent", "nofield" or "present"
    namespaces,   \* the user namespaces that exist
    objects,      \* per-instance child objects: <<namespace, kind, name>>
    mcpSecrets,   \* copied MCP secrets (labelled mcp-secret): <<namespace, name>>
    available,    \* Deployments with AvailableReplicas > 0: <<namespace, name>>
    edited,       \* child objects whose content is not what the operator wrote
    faults,       \* how many API calls have failed so far
    last,         \* what the pass that led to this state did
    mergeBase,      \* the personality spec handed to the merge
    mergeOverride,  \* the instance spec handed to the merge, as fetched
    mergeResolved,  \* the ResolvedMCPConfig handed to the merge
    mergeOut,       \* the working copy after each merge call made so far, with
                    \* the iteration order the call ran under
    mapSeed,        \* the order in which the Go runtime ranges over a map now
    ociArtifacts,   \* parsed content of the personality artifacts, by digest
    ociCache,       \* Client.cache: digest -> address of the cached PersonalitySpec
    ociHeap,        \* the PersonalitySpec values in memory, by address
    ociArrays,      \* the backing arrays of their Plugins slices, by address
    ociPulls        \* the PullPersonality call of each worker, and what it returned

vars == <<instances, servers, opSecrets, apiKey, namespaces, objects, mcpSecrets,
          available, edited, faults, last, mergeBase, mergeOverride, mergeResolved,
          mergeOut, mapSeed, ociArtifacts, ociCache, ociHeap, ociArrays, ociPulls>>

\* The cluster, as the controllers and the users see it.
cluster == <<instances, servers, opSecrets, apiKey, namespaces, objects, mcpSecrets,
             available, edited, faults, last>>

\* The memory of the OCI client.
ociClient == <<ociArtifacts, ociCache, ociHeap, ociArrays, ociPulls>>

\* What no cluster event touches.
library == <<mergeBase, mergeOverride, mergeResolved, mergeOut, mapSeed, ociClient>>

\* What the instance controller only reads.
environment == <<servers, opSecrets, apiKey>>

\* The objects the instance controller writes.
children == <<namespaces, objects, mcpSecrets, available, edited>>

(***************************************************************************)
(* Merge of a personality into an instance spec (the modelled fields).     *)
(***************************************************************************)
RECURSIVE AppendUnseenRefs(_, _)
AppendUnseenRefs(merged, refs) ==
    IF refs = <<>> THEN merged
    ELSE IF Head(refs) \in Range(merged)
         THEN AppendUnseenRefs(merged, Tail(refs))
         ELSE AppendUnseenRefs(Append(merged, Head(refs)), Tail(refs))

\* A PluginReference is [repository, tag, digest]; a repository is the
\* sequence of its path segments.
RECURSIVE MergePluginList(_, _)
MergePluginList(merged, plugins) ==
    IF plugins = <<>> THEN merged
    ELSE LET p == Head(plugins)
             hit == {k \in DOMAIN merged : merged[k].repository = p.repository}
         IN  IF hit # {}
             THEN LET first == CHOOSE k \in hit : \A j \in hit : k <= j
                  IN  MergePluginList([merged EXCEPT ![first] = p], Tail(plugins))
             ELSE MergePluginList(Append(merged, p), Tail(plugins))

RECURSIVE AppendUnseenPlugins(_, _)
AppendUnseenPlugins(merged, plugins) ==
    IF plugins = <<>> THEN merged
    ELSE IF Head(plugins).repository \in {m.repository : m \in Range(merged)}
         THEN AppendUnseenPlugins(merged, Tail(plugins))
         ELSE AppendUnseenPlugins(Append(merged, Head(plugins)), Tail(plugins))

mergePlugins(pers, inst) ==
    IF Len(pers) = 0 THEN inst
    ELSE IF Len(inst) = 0 THEN pers
    ELSE MergePluginList(AppendUnseenPlugins(<<>>, pers), inst)

mergeMCPServerRefs(pers, inst) ==
    IF Len(pers) = 0 THEN inst
    ELSE IF Len(inst) = 0 THEN pers
    ELSE AppendUnseenRefs(AppendUnseenRefs(<<>>, pers), inst)

RECURSIVE AppendUnseenSecrets(_, _)
AppendUnseenSecrets(merged, secrets) ==
    IF secrets = <<>> THEN merged
    ELSE IF Head(secrets).secretName \in {m.secretName : m \in Range(merged)}
         THEN AppendUnseenSecrets(merged, Tail(secrets))
         ELSE AppendUnseenSecrets(Append(merged, Head(secrets)), Tail(secrets))

mergeMCPServerSecrets(pers, inst) ==
    IF Len(pers) = 0 THEN inst
    ELSE IF Len(inst) = 0 THEN pers
    ELSE AppendUnseenSecrets(AppendUnseenSecrets(<<>>, pers), inst)

\* Mutant: the instance's entries come first.
mergeStringSlices_InstanceFirst(pers, inst) ==
    IF Len(pers) = 0 THEN inst
    ELSE IF Len(inst) = 0 THEN pers
    ELSE inst \o pers

\* Mutant: entries the personality holds already are not appended again.
mergeStringSlices_Deduplicated(pers, inst) ==
    IF Len(pers) = 0 THEN inst
    ELSE IF Len(inst) = 0 THEN pers
    ELSE AppendUnseenRefs(pers, inst)

mergeStringSlices(pers, inst) ==
    IF Len(pers) = 0 THEN inst
    ELSE IF Len(inst) = 0 THEN pers
    ELSE pers \o inst

\* A map is a function; the instance's entries win on key conflict.
mergeRawExtensionMap(pers, inst) ==
    IF DOMAIN pers = {} THEN inst
    ELSE IF DOMAIN inst = {} THEN pers
    ELSE [k \in DOMAIN pers \cup DOMAIN inst |-> IF k \in DOMAIN inst THEN inst[k] ELSE pers[k]]

\* The map fields of the merged spec that are the personality's own map:
\* mergeRawExtensionMap returns its first argument, no copy of it, when the
\* instance's map is empty.
SharedWithPersonality(pers, spec) ==
    {f \in {"inlineMCP", "hooks"} : DOMAIN pers[f] # {} /\ DOMAIN spec[f] = {}}

\* Mutant: a scalar of the personality, when set, replaces the instance's.
MergePersonalityIntoInstance_PersonalityWins(pers, spec) ==
    [spec EXCEPT
        !.model = IF pers.model # "" THEN pers.model ELSE @,
        !.settingsFile = IF pers.settingsFile # "" THEN pers.settingsFile ELSE @,
        !.mcpServerSecrets = mergeMCPServerSecrets(pers.mcpServerSecrets, @),
        !.inlineMCP = mergeRawExtensionMap(pers.inlineMCP, @),
        !.plugins = mergePlugins(pers.plugins, @),
        !.mcpServers = mergeMCPServerRefs(pers.mcpServers, @),
        !.addDirs = mergeStringSlices(pers.addDirs, @),
        !.hooks = mergeRawExtensionMap(pers.hooks, @)]

MergePersonalityIntoInstance(pers, spec) ==
    [spec EXCEPT
        !.model = IF @ = "" THEN pers.model ELSE @,
        !.settingsFile = IF @ = "" THEN pers.settingsFile ELSE @,
        !.mcpServerSecrets = mergeMCPServerSecrets(pers.mcpServerSecrets, @),
        !.inlineMCP = mergeRawExtensionMap(pers.inlineMCP, @),
        !.plugins = mergePlugins(pers.plugins, @),
        !.mcpServers = mergeMCPServerRefs(pers.mcpServers, @),
        !.addDirs = mergeStringSlices(pers.addDirs, @),
        !.hooks = mergeRawExtensionMap(pers.hooks, @)]

(***************************************************************************)
(* Merge of the resolved KlausMCPServer configs into the spec.             *)
(***************************************************************************)
\* The config JSON of a KlausMCPServerSpec: its non-empty fields, secretRefs
\* excluded.
ServerConfigToRawExtension(spec) ==
    (IF spec.type # "" THEN {<<"type", spec.type>>} ELSE {})
    \cup (IF spec.url # "" THEN {<<"url", spec.url>>} ELSE {})
    \cup (IF spec.command # "" THEN {<<"command", spec.command>>} ELSE {})

\* Lexicographic rank of the modelled secret names ("inline" < "shared" < "tok").
SecretNameRank(n) ==
    CASE n = "inline" -> 1
      [] n = "shared" -> 2
      [] n = "tok" -> 3
      [] OTHER -> 4

RECURSIVE SortedNames(_)
SortedNames(S) ==
    IF S = {} THEN <<>>
    ELSE LET least == CHOOSE n \in S : \A m \in S : SecretNameRank(n) <= SecretNameRank(m)
         IN  <<least>> \o SortedNames(S \ {least})

\* The orders in which a range loop may visit the keys of a map; the
\* runtime picks one per loop.
MapSeeds == {"ascending", "descending"}

\* maps.Keys: the keys of a map in the order the runtime visits them now.
MapKeys(S) ==
    LET up == SortedNames(S)
    IN  IF mapSeed = "ascending" THEN up ELSE [k \in DOMAIN up |-> up[Len(up) + 1 - k]]

\* slices.Sorted: the keys in ascending order, whatever order they came in.
SlicesSorted(keys) == SortedNames(Range(keys))

\* env var name -> [secretName, key], later list entries overwriting earlier.
RECURSIVE EnvMapOf(_, _)
EnvMapOf(envMap, secrets) ==
    IF secrets = <<>> THEN envMap
    ELSE LET s == Head(secrets)
             next == [v \in DOMAIN envMap \cup DOMAIN s.env |->
                        IF v \in DOMAIN s.env
                        THEN [secretName |-> s.secretName, key |-> s.env[v]]
                        ELSE envMap[v]]
         IN  EnvMapOf(next, Tail(secrets))

\* Mutant: the inline entries are applied last and win.
DeduplicateMCPServerSecrets_InlineWins(inline, resolved) ==
    IF Len(inline) = 0 /\ Len(resolved) = 0 THEN <<>>
    ELSE LET envMap == EnvMapOf(EnvMapOf(<<>>, resolved), inline)
             names == {envMap[v].secretName : v \in DOMAIN envMap}
             sorted == SlicesSorted(MapKeys(names))
             envOf(n) == LET vs == {v \in DOMAIN envMap : envMap[v].secretName = n}
                         IN  [v \in vs |-> envMap[v].key]
         IN  [k \in DOMAIN sorted |-> [secretName |-> sorted[k], env |-> envOf(sorted[k])]]

\* Mutant: the groups are returned in the order the runtime visits the
\* keys of secretEnvs.
DeduplicateMCPServerSecrets_Unsorted(inline, resolved) ==
    IF Len(inline) = 0 /\ Len(resolved) = 0 THEN <<>>
    ELSE LET envMap == EnvMapOf(EnvMapOf(<<>>, inline), resolved)
             names == {envMap[v].secretName : v \in DOMAIN envMap}
             sorted == MapKeys(names)
             envOf(n) == LET vs == {v \in DOMAIN envMap : envMap[v].secretName = n}
                         IN  [v \in vs |-> envMap[v].key]
         IN  [k \in DOMAIN sorted |-> [secretName |-> sorted[k], env |-> envOf(sorted[k])]]

DeduplicateMCPServerSecrets(inline, resolved) ==
    IF Len(inline) = 0 /\ Len(resolved) = 0 THEN <<>>
    ELSE LET envMap == EnvMapOf(EnvMapOf(<<>>, inline), resolved)
             names == {envMap[v].secretName : v \in DOMAIN envMap}
             sorted == SlicesSorted(MapKeys(names))
             envOf(n) == LET vs == {v \in DOMAIN envMap : envMap[v].secretName = n}
                         IN  [v \in vs |-> envMap[v].key]
         IN  [k \in DOMAIN sorted |-> [secretName |-> sorted[k], env |-> envOf(sorted[k])]]

\* Mutant: an inline entry is kept when a resolved server has its name.
MergeResolvedMCPIntoInstance_InlineWins(resolved, spec) ==
    LET withServers ==
            IF DOMAIN resolved.servers # {}
            THEN [spec EXCEPT !.inlineMCP =
                    [k \in DOMAIN @ \cup DOMAIN resolved.servers |->
                        IF k \in DOMAIN @ THEN @[k] ELSE resolved.servers[k]]]
            ELSE spec
    IN  IF Len(resolved.secrets) > 0
        THEN [withServers EXCEPT !.mcpServerSecrets =
                DeduplicateMCPServerSecrets(@, resolved.secrets)]
        ELSE withServers

\* resolved is [servers: name -> config, secrets: list of MCPServerSecret].
MergeResolvedMCPIntoInstance(resolved, spec) ==
    LET withServers ==
            IF DOMAIN resolved.servers # {}
            THEN [spec EXCEPT !.inlineMCP =
                    [k \in DOMAIN @ \cup DOMAIN resolved.servers |->
                        IF k \in DOMAIN resolved.servers THEN resolved.servers[k] ELSE @[k]]]
            ELSE spec
    IN  IF Len(resolved.secrets) > 0
        THEN [withServers EXCEPT !.mcpServerSecrets =
                DeduplicateMCPServerSecrets(@, resolved.secrets)]
        ELSE withServers

(***************************************************************************)
(* Validation of the merged spec.                                          *)
(***************************************************************************)
validateHooksExclusivity(spec) ==
    IF DOMAIN spec.hooks # {} /\ spec.settingsFile # ""
    THEN <<"spec.hooks and spec.claude.settingsFile are mutually exclusive", "">>
    ELSE <<"", "">>

ShortPluginName(repository) == repository[Len(repository)]

\* The first violation in list order, or no error.
RECURSIVE ValidatePluginsFrom(_, _, _)
ValidatePluginsFrom(plugins, k, seen) ==
    IF k > Len(plugins) THEN <<"", "">>
    ELSE LET p == plugins[k]
             hasTag == p.tag # ""
             hasDigest == p.digest # <<>>
         IN  IF ~hasTag /\ ~hasDigest
             THEN <<"must specify either tag or digest", ShortPluginName(p.repository)>>
             ELSE IF hasTag /\ hasDigest
             THEN <<"tag and digest are mutually exclusive", ShortPluginName(p.repository)>>
             ELSE IF hasDigest /\ p.digest[1] # "sha256:"
             THEN <<"digest must start with 'sha256:'", ShortPluginName(p.repository)>>
             ELSE IF ShortPluginName(p.repository) \in seen
             THEN <<"short name conflicts", ShortPluginName(p.repository)>>
             ELSE ValidatePluginsFrom(plugins, k + 1, seen \cup {ShortPluginName(p.repository)})

\* A digest is <<prefix, hex>>, or <<>> when unset.
ValidatePluginRefs(plugins) == ValidatePluginsFrom(plugins, 1, {})

\* The first validation error as <<text, subject>>; <<"", "">> is nil.
ValidateSpec(spec) ==
    IF validateHooksExclusivity(spec) # <<"", "">>
    THEN validateHooksExclusivity(spec)
    ELSE ValidatePluginRefs(spec.plugins)

NeedsGitSecret(spec) == spec.workspace = "git"

NeedsGitClone(spec) == spec.workspace = "git"

(***************************************************************************)
(* A pass. The context c carries the fetched object (inst), what the API   *)
(* server stores for it (stored), the working copy of the spec (merged),   *)
(* the cluster objects as the pass changes them, and the pass's record:    *)
(* log is the ordered list of what it did, entries <<tag, subject, detail>>*)
(* with tag "ok" (a step succeeded), "write" (an object was created or     *)
(* updated), "copy" (an MCP secret was copied: reference, secret name),    *)
(* "status" (the status was stored: state, Ready status), "gc" (the stale  *)
(* secret cleanup listed the cluster), "gcdelete" and "delete".            *)
(***************************************************************************)
NoError == [reason |-> "", message |-> <<"", "">>]

\* The API calls that may fail in a pass. A failure is an error other than
\* NotFound; for the reads of the KlausPersonality and of the git credential
\* source Secret, which the code does not tell apart, it is any error.
FaultSites ==
    {<<"getInstance", "">>, <<"updateInstance", "">>, <<"updateStatus", "">>,
     <<"getPersonality", "">>, <<"gcList", "">>, <<"getAPIKey", "">>,
     <<"getGitSecret", "">>, <<"build", "ConfigMap">>, <<"getDeployment", "">>}
    \cup {<<"getServer", s>> : s \in Servers}
    \cup {<<"copyMCPSecret", n>> : n \in SecretNames}
    \cup {<<"gcDelete", n>> : n \in SecretNames}
    \cup {<<"apply", k>> : k \in {"Namespace", "APIKeySecret", "GitSecret", "ConfigMap",
                                  "PersistentVolumeClaim", "ServiceAccount", "Deployment",
                                  "Service", "MCPServer"}}
    \cup {<<"delete", k>> : k \in {"Deployment", "Service", "ConfigMap", "APIKeySecret",
                                   "ServiceAccount", "PersistentVolumeClaim", "GitSecret",
                                   "MCPServer"}}

\* The subsets of S with at most n elements.
RECURSIVE SubsetsUpTo(_, _)
SubsetsUpTo(S, n) ==
    IF n = 0 THEN {{}}
    ELSE LET smaller == SubsetsUpTo(S, n - 1)
         IN  smaller \cup {T \cup {x} : T \in smaller, x \in S}

Fails(c, site, arg) == <<site, arg>> \in c.faults

NewPass(i, F) ==
    [i |-> i, faults |-> F, kind |-> "reconcile", done |-> FALSE,
     inst |-> instances[i], stored |-> instances[i],
     merged |-> instances[i].spec, mergedV1 |-> instances[i].spec,
     nss |-> namespaces, objs |-> objects, copies |-> mcpSecrets, avail |-> available,
     editedObjs |-> edited,
     personality |-> PersonalitySpec, personalityRead |-> FALSE, shared |-> {},
     err |-> NoError, statusError |-> FALSE, statusWriteFailed |-> FALSE, requeue |-> 0,
     log |-> <<>>, events |-> {}, depRead |-> "unread", deleteErrors |-> {},
     stepErr |-> <<"", "">>]

Log(c, tag, subject, detail) == [c EXCEPT !.log = Append(@, <<tag, subject, detail>>)]

Event(c, type, reason, message) == [c EXCEPT !.events = @ \cup {<<type, reason, message>>}]

\* F(x), with x evaluated once.
With(x, F(_)) == CHOOSE r \in {F(v) : v \in {x}} : TRUE

\* Run step only when the pass has not returned yet.
Then(c, Step(_)) == With(c, LAMBDA d : IF d.done THEN d ELSE Step(d))

\* return ctrl.Result{}, err without a status write.
ReturnError(c, text, subject) ==
    [c EXCEPT !.done = TRUE, !.err = [reason |-> "", message |-> <<text, subject>>]]

setCondition(c, condType, status, reason, message) ==
    [c EXCEPT !.inst.conditions[condType] =
        [status |-> status, reason |-> reason, message |-> message]]

\* r.Status().Update(ctx, instance): the status of the fetched object is
\* stored unless the call fails.
StatusUpdate(c) ==
    IF Fails(c, "updateStatus", "") THEN [c EXCEPT !.statusWriteFailed = TRUE]
    ELSE Log([c EXCEPT !.stored.state = c.inst.state, !.stored.conditions = c.inst.conditions,
                       !.stored.mcpServerCount = c.inst.mcpServerCount],
             "status", c.inst.state, c.inst.conditions[ConditionReady].status)

\* updateStatusError, were it to record no event.
updateStatusError_NoEvent(c, reason, message) ==
    With(setCondition([c EXCEPT !.inst.state = InstanceStateError],
                      ConditionReady, ConditionFalse, reason, message),
         LAMBDA c2 :
            [StatusUpdate(c2)
                EXCEPT !.done = TRUE, !.statusError = TRUE,
                       !.err = [reason |-> reason, message |-> message]])

updateStatusError(c, reason, message) ==
    With(setCondition([c EXCEPT !.inst.state = InstanceStateError],
                      ConditionReady, ConditionFalse, reason, message),
         LAMBDA c2 :
            [Event(StatusUpdate(c2), "Warning", reason, message)
                EXCEPT !.done = TRUE, !.statusError = TRUE,
                       !.err = [reason |-> reason, message |-> message]])

\* controllerutil.CreateOrUpdate of a per-instance object.
Apply(c, key, step) ==
    Log([c EXCEPT !.objs = @ \cup {key}, !.editedObjs = @ \ {key}], "write", step, "")

NoStepError == <<"", "">>

StepFailed(c, text, subject) == [c EXCEPT !.stepErr = <<text, subject>>]

(***************************************************************************)
(* cleanupStaleMCPSecrets.                                                 *)
(***************************************************************************)
\* serverSecrets: the secret names each listed KlausMCPServer declares.
ServerSecretNames(srvs, name) ==
    IF srvs[name].exists
    THEN {ref.secretName : ref \in Range(srvs[name].spec.secretRefs)}
    ELSE {}

\* LiveInstancesOf, were it to count only the instances that run.
LiveInstancesOf_RunningOnly(insts, namespace) ==
    {x \in Instances : /\ insts[x].exists
                       /\ UserNamespace(insts[x].spec.owner) = namespace
                       /\ ~insts[x].deleting
                       /\ insts[x].state = InstanceStateRunning}

\* The listed instances that share the user namespace and are not deleting.
LiveInstancesOf(insts, namespace) ==
    {x \in Instances : /\ insts[x].exists
                       /\ UserNamespace(insts[x].spec.owner) = namespace
                       /\ ~insts[x].deleting}

\* desiredSecrets: what the spec.mcpServers of those instances declare.
DesiredMCPSecrets(insts, srvs, namespace) ==
    UNION {ServerSecretNames(srvs, r) :
             r \in UNION {Range(insts[x].spec.mcpServers) :
                            x \in LiveInstancesOf(insts, namespace)}}

\* Deletes names[k], names[k+1], ... and stops at the first failure.
RECURSIVE DeleteStaleSecrets(_, _, _, _)
DeleteStaleSecrets(c, namespace, names, k) ==
    IF k > Len(names) THEN c
    ELSE IF Fails(c, "gcDelete", names[k])
         THEN StepFailed(c, "deleting stale MCP secret", names[k])
         ELSE With(Log([c EXCEPT !.copies = @ \ {<<namespace, names[k]>>}],
                       "gcdelete", names[k], ""),
                   LAMBDA d : DeleteStaleSecrets(d, namespace, names, k + 1))

\* The result carries stepErr when the cleanup returned an error.
cleanupStaleMCPSecrets(c, namespace) ==
    IF Fails(c, "gcList", "")
    THEN StepFailed(c, "listing", "")
    ELSE LET listed == [instances EXCEPT ![c.i] = c.stored]
             desiredSecrets == DesiredMCPSecrets(listed, servers, namespace)
             existing == {n \in SecretNames : <<namespace, n>> \in c.copies}
         IN  With(SortedNames(existing \ desiredSecrets),
                  LAMBDA stale :
                     DeleteStaleSecrets(Log(c, "gc", "cleanupStaleMCPSecrets", ""),
                                        namespace, stale, 1))

(***************************************************************************)
(* resolveMCPServers.                                                      *)
(***************************************************************************)
\* The first secretRef whose name another server already owns, as a step
\* error; owners is updated up to it.
RECURSIVE CheckCollisions(_, _, _)
CheckCollisions(owners, secretRefs, refName) ==
    IF secretRefs = <<>> THEN [owners |-> owners, err |-> NoStepError]
    ELSE LET n == Head(secretRefs).secretName
         IN  IF n \in DOMAIN owners /\ owners[n] # refName
             THEN [owners |-> owners, err |-> <<"secret name collision", n>>]
             ELSE CheckCollisions([m \in DOMAIN owners \cup {n} |->
                                      IF m = n THEN refName ELSE owners[m]],
                                  Tail(secretRefs), refName)

\* copyMCPSecret, were the copy written only until the instance has
\* completed a pass.
copyMCPSecret_UntilFirstRollout(c, refName, secretName, targetNamespace) ==
    IF secretName \notin opSecrets
    THEN StepFailed(c, "copying MCP secret", secretName)
    ELSE IF Fails(c, "copyMCPSecret", secretName) \/ targetNamespace \notin c.nss
    THEN StepFailed(c, "copying MCP secret", secretName)
    ELSE IF c.stored.conditions[ConditionReady].reason = "Progressing"
    THEN c
    ELSE Log([c EXCEPT !.copies = @ \cup {<<targetNamespace, secretName>>}],
             "copy", refName, secretName)

copyMCPSecret(c, refName, secretName, targetNamespace) ==
    IF secretName \notin opSecrets
    THEN StepFailed(c, "copying MCP secret", secretName)
    ELSE IF Fails(c, "copyMCPSecret", secretName) \/ targetNamespace \notin c.nss
    THEN StepFailed(c, "copying MCP secret", secretName)
    ELSE Log([c EXCEPT !.copies = @ \cup {<<targetNamespace, secretName>>}],
             "copy", refName, secretName)

\* Copies secretRefs[k], secretRefs[k+1], ... and stops at the first failure.
RECURSIVE CopySecrets(_, _, _, _, _)
CopySecrets(c, secretRefs, k, refName, namespace) ==
    IF k > Len(secretRefs) THEN c
    ELSE With(copyMCPSecret(c, refName, secretRefs[k].secretName, namespace),
              LAMBDA c1 :
                 IF c1.stepErr # NoStepError THEN c1
                 ELSE CopySecrets(c1, secretRefs, k + 1, refName, namespace))

\* ResolveOne, were it not to look at the Ready condition.
ResolveOne_NoReadyCheck(c, acc, refName, namespace) ==
    LET server == servers[refName] IN
    IF Fails(c, "getServer", refName) \/ ~server.exists
    THEN [c |-> StepFailed(c, "resolving MCP server", refName), acc |-> acc]
    ELSE LET acc1 == [acc EXCEPT
                        !.servers = [k \in DOMAIN @ \cup {refName} |->
                                        IF k = refName
                                        THEN ServerConfigToRawExtension(server.spec)
                                        ELSE @[k]],
                        !.secrets = @ \o server.spec.secretRefs]
             checked == CheckCollisions(acc.owners, server.spec.secretRefs, refName)
             acc2 == [acc1 EXCEPT !.owners = checked.owners]
         IN  IF checked.err # NoStepError
             THEN [c |-> [c EXCEPT !.stepErr = checked.err], acc |-> acc2]
             ELSE [c |-> CopySecrets(c, server.spec.secretRefs, 1, refName, namespace),
                   acc |-> acc2]

\* One iteration of the loop over spec.mcpServers. acc is
\* [servers, secrets, owners]; the result is [c, acc].
ResolveOne(c, acc, refName, namespace) ==
    LET server == servers[refName] IN
    IF Fails(c, "getServer", refName) \/ ~server.exists
    THEN [c |-> StepFailed(c, "resolving MCP server", refName), acc |-> acc]
    ELSE IF server.ready = ConditionFalse
    THEN [c |-> StepFailed(c, "MCP server is not ready", refName), acc |-> acc]
    ELSE LET acc1 == [acc EXCEPT
                        !.servers = [k \in DOMAIN @ \cup {refName} |->
                                        IF k = refName
                                        THEN ServerConfigToRawExtension(server.spec)
                                        ELSE @[k]],
                        !.secrets = @ \o server.spec.secretRefs]
             checked == CheckCollisions(acc.owners, server.spec.secretRefs, refName)
             acc2 == [acc1 EXCEPT !.owners = checked.owners]
         IN  IF checked.err # NoStepError
             THEN [c |-> [c EXCEPT !.stepErr = checked.err], acc |-> acc2]
             ELSE [c |-> CopySecrets(c, server.spec.secretRefs, 1, refName, namespace),
                   acc |-> acc2]

\* Mutant: the loop goes on after a failing reference and returns the first
\* error at its end.
RECURSIVE ResolveRefs_KeepsGoing(_, _, _, _)
ResolveRefs_KeepsGoing(state, refs, k, namespace) ==
    IF k > Len(refs) THEN state
    ELSE With(ResolveOne([state.c EXCEPT !.stepErr = NoStepError], state.acc, refs[k],
                         namespace),
              LAMBDA one :
                 ResolveRefs_KeepsGoing(
                    [one EXCEPT !.c.stepErr = IF state.c.stepErr # NoStepError
                                              THEN state.c.stepErr ELSE @],
                    refs, k + 1, namespace))

\* The loop from refs[k] on; it stops at the first failure.
RECURSIVE ResolveRefs(_, _, _, _)
ResolveRefs(state, refs, k, namespace) ==
    IF k > Len(refs) THEN state
    ELSE With(ResolveOne(state.c, state.acc, refs[k], namespace),
              LAMBDA one :
                 IF one.c.stepErr # NoStepError THEN one
                 ELSE ResolveRefs(one, refs, k + 1, namespace))

\* MergeResolvedMCPIntoInstance on the working copy. It assigns the resolved
\* configs into the map claude.mcpServers where one exists; a map that the
\* working copy shares with the personality that was read is the
\* personality's map too.
MergeResolved(c, resolved) ==
    LET m == MergeResolvedMCPIntoInstance(resolved, c.merged)
    IN  [c EXCEPT !.merged = m,
                  !.personality.inlineMCP =
                      IF "inlineMCP" \in c.shared /\ DOMAIN resolved.servers # {}
                      THEN m.inlineMCP
                      ELSE @]

\* resolveMCPServers, were it to merge what the loop had resolved when it
\* stopped at a failure.
resolveMCPServers_MergesPartial(c) ==
    IF Len(c.merged.mcpServers) = 0 THEN c
    ELSE With(UserNamespace(c.merged.owner), LAMBDA namespace :
         With(ResolveRefs([c |-> c,
                           acc |-> [servers |-> <<>>, secrets |-> <<>>, owners |-> <<>>]],
                          c.merged.mcpServers, 1, namespace),
              LAMBDA looped :
                 IF looped.c.stepErr # NoStepError
                 THEN [looped.c EXCEPT !.merged =
                         MergeResolvedMCPIntoInstance(
                           [servers |-> looped.acc.servers,
                            secrets |-> looped.acc.secrets], @)]
                 ELSE With(cleanupStaleMCPSecrets(looped.c, namespace),
                           LAMBDA cleaned :
                              IF cleaned.stepErr # NoStepError
                              THEN StepFailed(cleaned, "cleaning up stale MCP secrets",
                                              cleaned.stepErr[2])
                              ELSE MergeResolved(cleaned,
                                                 [servers |-> looped.acc.servers,
                                                  secrets |-> looped.acc.secrets]))))

\* The result carries stepErr when resolution returned an error; otherwise
\* merged holds the resolved configs and secrets.
resolveMCPServers(c) ==
    IF Len(c.merged.mcpServers) = 0 THEN c
    ELSE With(UserNamespace(c.merged.owner), LAMBDA namespace :
         With(ResolveRefs([c |-> c,
                           acc |-> [servers |-> <<>>, secrets |-> <<>>, owners |-> <<>>]],
                          c.merged.mcpServers, 1, namespace),
              LAMBDA looped :
                 IF looped.c.stepErr # NoStepError THEN looped.c
                 ELSE With(cleanupStaleMCPSecrets(looped.c, namespace),
                           LAMBDA cleaned :
                              IF cleaned.stepErr # NoStepError
                              THEN StepFailed(cleaned, "cleaning up stale MCP secrets",
                                              cleaned.stepErr[2])
                              ELSE MergeResolved(cleaned,
                                                 [servers |-> looped.acc.servers,
                                                  secrets |-> looped.acc.secrets]))))

(***************************************************************************)
(* The steps of Reconcile, in the order of the code.                       *)
(***************************************************************************)
StepOK(c, step) == Log(c, "ok", step, "")

\* resolvePersonality, were it given the fetched instance and not a deep
\* copy of it.
resolvePersonality_InPlace(c) ==
    IF c.merged.personalityRef = "" THEN StepOK(c, "resolvePersonality")
    ELSE IF Fails(c, "getPersonality", "")
    THEN updateStatusError(c, "PersonalityError",
                           <<"resolving personality", c.merged.personalityRef>>)
    ELSE LET m == MergePersonalityIntoInstance(PersonalitySpec, c.merged)
         IN  StepOK([c EXCEPT !.merged = m, !.mergedV1 = m, !.inst.spec = m,
                              !.personalityRead = TRUE,
                              !.shared = SharedWithPersonality(PersonalitySpec, c.merged)],
                    "resolvePersonality")

resolvePersonality(c) ==
    IF c.merged.personalityRef = "" THEN StepOK(c, "resolvePersonality")
    ELSE IF Fails(c, "getPersonality", "")
    THEN updateStatusError(c, "PersonalityError",
                           <<"resolving personality", c.merged.personalityRef>>)
    ELSE LET m == MergePersonalityIntoInstance(PersonalitySpec, c.merged)
         IN  StepOK([c EXCEPT !.merged = m, !.mergedV1 = m,
                              !.personalityRead = TRUE,
                              !.shared = SharedWithPersonality(PersonalitySpec, c.merged)],
                    "resolvePersonality")

\* The informational events for inline configs that a reference overrides.
OverrideEvents(c) ==
    [c EXCEPT !.events = @ \cup
        {<<"Normal", "MCPServerOverride", <<"overrides inline MCP server config", r>>>> :
            r \in Range(c.merged.mcpServers) \cap DOMAIN c.merged.inlineMCP}]

ResolveMCPServersStep(c) ==
    With(resolveMCPServers(c),
         LAMBDA r :
            IF r.stepErr # NoStepError
            THEN updateStatusError([r EXCEPT !.stepErr = NoStepError], "MCPServerRefError",
                                   r.stepErr)
            ELSE StepOK(r, "resolveMCPServers"))

ValidateStep(c) ==
    With(ValidateSpec(c.merged),
         LAMBDA err :
            IF err # <<"", "">>
            THEN updateStatusError(c, "ValidationError", err)
            ELSE StepOK(c, "ValidateSpec"))

Namespace(c) == UserNamespace(c.merged.owner)

ensureNamespace(c) ==
    IF Fails(c, "apply", "Namespace")
    THEN updateStatusError(c, "NamespaceError", <<"namespace", "">>)
    ELSE StepOK(Log([c EXCEPT !.nss = @ \cup {Namespace(c)}], "write", "Namespace", ""),
                "ensureNamespace")

\* copyAPIKeySecret, were a missing source secret an error like the others.
copyAPIKeySecret_NotFoundFails(c) ==
    IF Fails(c, "getAPIKey", "") \/ apiKey = "absent"
    THEN updateStatusError(c, "SecretError", <<"fetching Anthropic API key secret", "">>)
    ELSE IF apiKey = "nofield"
    THEN updateStatusError(c, "SecretError", <<"Anthropic API key secret missing 'api-key' field", "">>)
    ELSE IF Fails(c, "apply", "APIKeySecret")
    THEN updateStatusError(c, "SecretError", <<"api key secret", "">>)
    ELSE StepOK(Apply(c, <<Namespace(c), KindSecret, SecretName(c.i)>>, "APIKeySecret"),
                "copyAPIKeySecret")

\* found = false ends the pass with a fixed-delay requeue and no error.
copyAPIKeySecret(c) ==
    IF Fails(c, "getAPIKey", "")
    THEN updateStatusError(c, "SecretError", <<"fetching Anthropic API key secret", "">>)
    ELSE IF apiKey = "absent"
    THEN [c EXCEPT !.done = TRUE, !.requeue = RequeueAPIKeySeconds]
    ELSE IF apiKey = "nofield"
    THEN updateStatusError(c, "SecretError", <<"Anthropic API key secret missing 'api-key' field", "">>)
    ELSE IF Fails(c, "apply", "APIKeySecret")
    THEN updateStatusError(c, "SecretError", <<"api key secret", "">>)
    ELSE StepOK(Apply(c, <<Namespace(c), KindSecret, SecretName(c.i)>>, "APIKeySecret"),
                "copyAPIKeySecret")

\* The GitSecretReady event follows a create or an update; the content of
\* the source secret is not modelled, so an existing copy is unchanged.
copyGitSecret(c) ==
    IF ~NeedsGitSecret(c.merged) THEN StepOK(c, "copyGitSecret")
    ELSE IF Fails(c, "getGitSecret", "")
    THEN updateStatusError(c, "GitSecretError", <<"fetching git secret", "">>)
    ELSE IF Fails(c, "apply", "GitSecret")
    THEN updateStatusError(c, "GitSecretError", <<"reconciling git secret copy", "">>)
    ELSE LET key == <<Namespace(c), KindSecret, GitSecretName(c.i)>>
             created == key \notin c.objs
             c1 == Apply(c, key, "GitSecret")
             c2 == IF created
                   THEN Event(c1, "Normal", "GitSecretReady", <<"Git credential secret copied", "">>)
                   ELSE c1
         IN  StepOK(c2, "copyGitSecret")

reconcileConfigMap(c) ==
    IF Fails(c, "build", "ConfigMap")
    THEN updateStatusError(
            setCondition(c, ConditionConfigReady, ConditionFalse, "BuildError", <<"build", "">>),
            "ConfigMapError", <<"build", "">>)
    ELSE IF Fails(c, "apply", "ConfigMap")
    THEN updateStatusError(
            setCondition(c, ConditionConfigReady, ConditionFalse, "ReconcileError", <<"configmap", "">>),
            "ConfigMapError", <<"configmap", "">>)
    ELSE LET key == <<Namespace(c), KindConfigMap, ConfigMapName(c.i)>>
             c1 == IF key \notin c.objs
                   THEN Event(c, "Normal", "CreatingConfigMap", <<"Created ConfigMap", c.i>>)
                   ELSE c
             c2 == Apply(c1, key, "ConfigMap")
         IN  StepOK(setCondition(c2, ConditionConfigReady, ConditionTrue, "Reconciled",
                                 <<"ConfigMap reconciled", "">>),
                    "reconcileConfigMap")

\* An existing PVC is left as it is; the event precedes the Create call.
reconcilePVC(c) ==
    LET key == <<Namespace(c), KindPVC, PVCName(c.i)>>
        announced == Event(c, "Normal", "CreatingPVC", <<"Creating PVC", c.i>>)
    IN  IF c.merged.workspace = "none" THEN StepOK(c, "reconcilePVC")
        ELSE IF key \in c.objs
        THEN IF Fails(c, "apply", "PersistentVolumeClaim")
             THEN updateStatusError(c, "PVCError", <<"pvc", "">>)
             ELSE StepOK(c, "reconcilePVC")
        ELSE IF Fails(c, "apply", "PersistentVolumeClaim")
             THEN updateStatusError(announced, "PVCError", <<"pvc", "">>)
             ELSE StepOK(Apply(announced, key, "PersistentVolumeClaim"), "reconcilePVC")

\* ensureServiceAccount, were its failure recorded and the pass to go on.
ensureServiceAccount_BestEffort(c) ==
    IF Fails(c, "apply", "ServiceAccount")
    THEN Event(c, "Warning", "ServiceAccountError", <<"serviceaccount", "">>)
    ELSE StepOK(Apply(c, <<Namespace(c), KindServiceAccount, ServiceAccountName(c.i)>>,
                      "ServiceAccount"),
                "ensureServiceAccount")

ensureServiceAccount(c) ==
    IF Fails(c, "apply", "ServiceAccount")
    THEN updateStatusError(c, "ServiceAccountError", <<"serviceaccount", "">>)
    ELSE StepOK(Apply(c, <<Namespace(c), KindServiceAccount, ServiceAccountName(c.i)>>,
                      "ServiceAccount"),
                "ensureServiceAccount")

\* reconcileDeployment, were an existing Deployment left as it is, like a
\* PVC.
reconcileDeployment_CreateOnly(c) ==
    IF Fails(c, "apply", "Deployment")
    THEN updateStatusError(
            setCondition(c, ConditionDeploymentReady, ConditionFalse, "ReconcileError",
                         <<"deployment", "">>),
            "DeploymentError", <<"deployment", "">>)
    ELSE LET key == <<Namespace(c), KindDeployment, DeploymentName(c.i)>>
             created == key \notin c.objs
             c1 == IF created
                   THEN Event(c, "Normal", "CreatingDeployment", <<"Created Deployment", c.i>>)
                   ELSE c
             c2 == IF created THEN Apply(c1, key, "Deployment") ELSE c1
             c3 == IF NeedsGitClone(c.merged) /\ created
                   THEN Event(c2, "Normal", "WorkspaceClone", <<"Workspace git clone configured", "">>)
                   ELSE c2
         IN  StepOK(c3, "reconcileDeployment")

reconcileDeployment(c) ==
    IF Fails(c, "apply", "Deployment")
    THEN updateStatusError(
            setCondition(c, ConditionDeploymentReady, ConditionFalse, "ReconcileError",
                         <<"deployment", "">>),
            "DeploymentError", <<"deployment", "">>)
    ELSE LET key == <<Namespace(c), KindDeployment, DeploymentName(c.i)>>
             created == key \notin c.objs
             c1 == IF created
                   THEN Event(c, "Normal", "CreatingDeployment", <<"Created Deployment", c.i>>)
                   ELSE c
             c2 == Apply(c1, key, "Deployment")
             c3 == IF NeedsGitClone(c.merged) /\ created
                   THEN Event(c2, "Normal", "WorkspaceClone", <<"Workspace git clone configured", "">>)
                   ELSE c2
         IN  StepOK(c3, "reconcileDeployment")

\* The read of Deployment.Status.AvailableReplicas.
checkDeploymentReadiness(c) ==
    IF Fails(c, "getDeployment", "")
    THEN updateStatusError(c, "DeploymentError", <<"get deployment", "">>)
    ELSE LET deploymentReady == <<Namespace(c), DeploymentName(c.i)>> \in c.avail
             c1 == [c EXCEPT !.depRead = IF deploymentReady THEN "available" ELSE "unavailable"]
         IN  IF deploymentReady
             THEN setCondition(c1, ConditionDeploymentReady, ConditionTrue, "Available",
                               <<"Deployment has available replicas", "">>)
             ELSE setCondition(c1, ConditionDeploymentReady, ConditionFalse, "Progressing",
                               <<"Deployment is rolling out", "">>)

reconcileService(c) ==
    IF Fails(c, "apply", "Service")
    THEN updateStatusError(c, "ServiceError", <<"service", "">>)
    ELSE LET key == <<Namespace(c), KindService, ServiceName(c.i)>>
             c1 == IF key \notin c.objs
                   THEN Event(c, "Normal", "CreatingService", <<"Created Service", c.i>>)
                   ELSE c
         IN  StepOK(Apply(c1, key, "Service"), "reconcileService")

\* reconcileMCPServer, were its failure to end the pass like the others.
reconcileMCPServer_Fatal(c) ==
    IF Fails(c, "apply", "MCPServer")
    THEN updateStatusError(
            setCondition(c, ConditionMCPServerReady, ConditionFalse, "ReconcileError",
                         <<"mcpserver", "">>),
            "MCPServerError", <<"mcpserver", "">>)
    ELSE StepOK(setCondition(
                    Apply(c, <<MusterNamespaceDefault, KindMCPServer, MCPServerCRDName(c.i)>>,
                          "MCPServer"),
                    ConditionMCPServerReady, ConditionTrue, "Reconciled",
                    <<"MCPServer CRD reconciled", "">>),
                "reconcileMCPServer")

\* A failure is recorded and the pass goes on.
reconcileMCPServer(c) ==
    IF Fails(c, "apply", "MCPServer")
    THEN setCondition(Event(c, "Warning", "MCPServerError", <<"mcpserver", "">>),
                      ConditionMCPServerReady, ConditionFalse, "ReconcileError",
                      <<"mcpserver", "">>)
    ELSE StepOK(setCondition(
                    Apply(c, <<MusterNamespaceDefault, KindMCPServer, MCPServerCRDName(c.i)>>,
                          "MCPServer"),
                    ConditionMCPServerReady, ConditionTrue, "Reconciled",
                    <<"MCPServer CRD reconciled", "">>),
                "reconcileMCPServer")

\* The final status write of a pass that applied everything.
FinalStatusUpdate(c) ==
    IF Fails(c, "updateStatus", "")
    THEN ReturnError(c, "status update", "")
    ELSE [StatusUpdate(c) EXCEPT !.done = TRUE]

\* Status.MCPServerCount, counted on the instance as fetched.
populateCommonStatus(c) ==
    [c EXCEPT !.inst.mcpServerCount =
        Len(c.inst.spec.mcpServers) + Cardinality(DOMAIN c.inst.spec.inlineMCP)]

updateStatusRunning(c) ==
    FinalStatusUpdate(
        setCondition([populateCommonStatus(c) EXCEPT !.inst.state = InstanceStateRunning],
                     ConditionReady, ConditionTrue, "Reconciled",
                     <<"All resources reconciled successfully", "">>))

\* updateStatusPending, were it to return without asking for a requeue.
updateStatusPending_NoRequeue(c) ==
    FinalStatusUpdate(
        setCondition([populateCommonStatus(c) EXCEPT !.inst.state = InstanceStatePending],
                     ConditionReady, ConditionFalse, "Progressing",
                     <<"Waiting for Deployment to become available", "">>))

updateStatusPending(c) ==
    LET r == FinalStatusUpdate(
                setCondition([populateCommonStatus(c) EXCEPT !.inst.state = InstanceStatePending],
                             ConditionReady, ConditionFalse, "Progressing",
                             <<"Waiting for Deployment to become available", "">>))
    IN  IF r.err = NoError THEN [r EXCEPT !.requeue = RequeuePendingSeconds] ELSE r

\* updateStatus, were it to report Running whatever the Deployment read.
updateStatus_AlwaysRunning(c) == updateStatusRunning(c)

updateStatus(c) ==
    IF c.depRead = "available" THEN updateStatusRunning(c) ELSE updateStatusPending(c)

(***************************************************************************)
(* reconcileDelete.                                                        *)
(***************************************************************************)
\* The children of the instance in deletion order, as <<site, key>>.
ChildrenToDelete(i, spec) ==
    LET namespace == UserNamespace(spec.owner)
    IN  << <<"Deployment", <<namespace, KindDeployment, DeploymentName(i)>> >>,
           <<"Service", <<namespace, KindService, ServiceName(i)>> >>,
           <<"ConfigMap", <<namespace, KindConfigMap, ConfigMapName(i)>> >>,
           <<"APIKeySecret", <<namespace, KindSecret, SecretName(i)>> >>,
           <<"ServiceAccount", <<namespace, KindServiceAccount, ServiceAccountName(i)>> >> >>
        \o (IF spec.workspace # "none"
            THEN << <<"PersistentVolumeClaim", <<namespace, KindPVC, PVCName(i)>> >> >>
            ELSE <<>>)
        \o (IF NeedsGitSecret(spec)
            THEN << <<"GitSecret", <<namespace, KindSecret, GitSecretName(i)>> >> >>
            ELSE <<>>)
        \o << <<"MCPServer", <<MusterNamespaceDefault, KindMCPServer, MCPServerCRDName(i)>> >> >>

\* DeleteChild, were NotFound collected like any other error.
DeleteChild_NotFoundCollected(c, child) ==
    IF Fails(c, "delete", child[1]) \/ child[2] \notin c.objs
    THEN [c EXCEPT !.deleteErrors = @ \cup {child[1]}]
    ELSE Log([c EXCEPT !.objs = @ \ {child[2]},
                       !.editedObjs = @ \ {child[2]},
                       !.avail = IF child[1] = "Deployment"
                                 THEN @ \ {<<child[2][1], child[2][3]>>}
                                 ELSE @],
             "delete", child[1], "")

\* r.Delete of one child: NotFound is ignored, any other error is collected.
\* The log entry tells whether the object was there.
DeleteChild(c, child) ==
    IF Fails(c, "delete", child[1])
    THEN [c EXCEPT !.deleteErrors = @ \cup {child[1]}]
    ELSE Log([c EXCEPT !.objs = @ \ {child[2]},
                       !.editedObjs = @ \ {child[2]},
                       !.avail = IF child[1] = "Deployment"
                                 THEN @ \ {<<child[2][1], child[2][3]>>}
                                 ELSE @],
             "delete", child[1], IF child[2] \in c.objs THEN "" ELSE "NotFound")

\* Deletes list[k], list[k+1], ...; a failure does not stop the loop.
RECURSIVE DeleteChildren(_, _, _)
DeleteChildren(c, list, k) ==
    IF k > Len(list) THEN c
    ELSE With(DeleteChild(c, list[k]), LAMBDA d : DeleteChildren(d, list, k + 1))

\* When the finalizer goes from a deleting object the API server drops it.
RemoveFinalizer(c) ==
    IF Fails(c, "updateInstance", "")
    THEN ReturnError(c, "update", "")
    ELSE [Log([c EXCEPT !.stored = AbsentInstance], "ok", "RemoveFinalizer", "")
            EXCEPT !.done = TRUE]

\* reconcileDelete, were the error of the stale secret cleanup logged and
\* dropped.
reconcileDelete_CleanupBestEffort(c) ==
    With(cleanupStaleMCPSecrets([c EXCEPT !.kind = "delete"], UserNamespace(c.inst.spec.owner)),
         LAMBDA cleaned :
    With([cleaned EXCEPT !.stepErr = NoStepError],
         LAMBDA c1 :
    With(ChildrenToDelete(c.i, c.inst.spec),
         LAMBDA list :
    With(DeleteChildren(c1, list, 1),
         LAMBDA c2 :
            IF c2.deleteErrors # {}
            THEN ReturnError(c2, "cleaning up child resources", "")
            ELSE RemoveFinalizer(c2)))))

\* reconcileDelete, were it to remove the finalizer whatever the deletes
\* returned.
reconcileDelete_ReleasesAnyway(c) ==
    With(cleanupStaleMCPSecrets([c EXCEPT !.kind = "delete"], UserNamespace(c.inst.spec.owner)),
         LAMBDA cleaned :
    With(IF cleaned.stepErr # NoStepError
         THEN [cleaned EXCEPT !.deleteErrors = @ \cup {"cleanupStaleMCPSecrets"},
                              !.stepErr = NoStepError]
         ELSE cleaned,
         LAMBDA c1 :
    With(ChildrenToDelete(c.i, c.inst.spec),
         LAMBDA list :
    With(DeleteChildren(c1, list, 1),
         LAMBDA c2 : RemoveFinalizer(c2)))))

reconcileDelete(c) ==
    With(cleanupStaleMCPSecrets([c EXCEPT !.kind = "delete"], UserNamespace(c.inst.spec.owner)),
         LAMBDA cleaned :
    With(IF cleaned.stepErr # NoStepError
         THEN [cleaned EXCEPT !.deleteErrors = @ \cup {"cleanupStaleMCPSecrets"},
                              !.stepErr = NoStepError]
         ELSE cleaned,
         LAMBDA c1 :
    With(ChildrenToDelete(c.i, c.inst.spec),
         LAMBDA list :
    With(DeleteChildren(c1, list, 1),
         LAMBDA c2 :
            IF c2.deleteErrors # {}
            THEN ReturnError(c2, "cleaning up child resources", "")
            ELSE RemoveFinalizer(c2)))))

(***************************************************************************)
(* Reconcile.                                                              *)
(***************************************************************************)
\* The first status write of a new instance.
InitialPending(c) ==
    IF c.inst.state # "" THEN c
    ELSE IF Fails(c, "updateStatus", "")
    THEN ReturnError([c EXCEPT !.inst.state = InstanceStatePending], "status update", "")
    ELSE StatusUpdate([c EXCEPT !.inst.state = InstanceStatePending])

\* ReconcileSteps, were the namespace ensured ahead of the resolution.
ReconcileSteps_NamespaceFirst(c) ==
    LET s1  == Then(c, InitialPending)
        s2  == Then(s1, ensureNamespace)
        s3  == Then(s2, resolvePersonality)
        s4  == Then(s3, OverrideEvents)
        s5  == Then(s4, ResolveMCPServersStep)
        s6  == Then(s5, ValidateStep)
        s7  == Then(s6, copyAPIKeySecret)
        s8  == Then(s7, copyGitSecret)
        s9  == Then(s8, reconcileConfigMap)
        s10 == Then(s9, reconcilePVC)
        s11 == Then(s10, ensureServiceAccount)
        s12 == Then(s11, reconcileDeployment)
        s13 == Then(s12, checkDeploymentReadiness)
        s14 == Then(s13, reconcileService)
        s15 == Then(s14, reconcileMCPServer)
    IN  Then(s15, updateStatus)

\* Everything after the finalizer check, in the order of the code.
ReconcileSteps(c) ==
    LET s1  == Then(c, InitialPending)
        s2  == Then(s1, resolvePersonality)
        s3  == Then(s2, OverrideEvents)
        s4  == Then(s3, ResolveMCPServersStep)
        s5  == Then(s4, ValidateStep)
        s6  == Then(s5, ensureNamespace)
        s7  == Then(s6, copyAPIKeySecret)
        s8  == Then(s7, copyGitSecret)
        s9  == Then(s8, reconcileConfigMap)
        s10 == Then(s9, reconcilePVC)
        s11 == Then(s10, ensureServiceAccount)
        s12 == Then(s11, reconcileDeployment)
        s13 == Then(s12, checkDeploymentReadiness)
        s14 == Then(s13, reconcileService)
        s15 == Then(s14, reconcileMCPServer)
    IN  Then(s15, updateStatus)

\* Mutant: the pass that adds the finalizer goes on with the other steps.
EnsureFinalizer_Continues(c) ==
    IF Fails(c, "updateInstance", "")
    THEN ReturnError([c EXCEPT !.kind = "finalizer"], "update", "")
    ELSE ReconcileSteps(Log([c EXCEPT !.kind = "finalizer", !.inst.finalizer = TRUE,
                                      !.stored.finalizer = TRUE],
                            "ok", "AddFinalizer", ""))

\* AddFinalizer, Update and return.
EnsureFinalizer(c) ==
    IF Fails(c, "updateInstance", "")
    THEN ReturnError([c EXCEPT !.kind = "finalizer"], "update", "")
    ELSE [Log([c EXCEPT !.kind = "finalizer", !.inst.finalizer = TRUE,
                        !.stored.finalizer = TRUE],
              "ok", "AddFinalizer", "")
            EXCEPT !.done = TRUE]

\* One pass for the instance named i with the failing calls F.
\* ReconcilePass, were a deletion pass to store a state of its own first.
ReconcilePass_DeletingState(i, F) ==
    With(NewPass(i, F),
         LAMBDA c :
            IF Fails(c, "getInstance", "")
            THEN ReturnError([c EXCEPT !.kind = "get"], "get", "")
            ELSE IF ~c.inst.exists THEN [c EXCEPT !.kind = "notfound", !.done = TRUE]
            ELSE IF c.inst.deleting
                 THEN reconcileDelete(StatusUpdate([c EXCEPT !.inst.state = "Deleting"]))
            ELSE IF ~c.inst.finalizer THEN EnsureFinalizer(c)
            ELSE ReconcileSteps(c))

ReconcilePass(i, F) ==
    With(NewPass(i, F),
         LAMBDA c :
            IF Fails(c, "getInstance", "")
            THEN ReturnError([c EXCEPT !.kind = "get"], "get", "")
            ELSE IF ~c.inst.exists THEN [c EXCEPT !.kind = "notfound", !.done = TRUE]
            ELSE IF c.inst.deleting THEN reconcileDelete(c)
            ELSE IF ~c.inst.finalizer THEN EnsureFinalizer(c)
            ELSE ReconcileSteps(c))

(***************************************************************************)
(* The record of the most recent pass. A change made by a user or by       *)
(* another controller clears it.                                           *)
(***************************************************************************)
NoPass ==
    [i |-> "", kind |-> "none", faults |-> {}, err |-> NoError, statusError |-> FALSE,
     statusWriteFailed |-> FALSE, requeue |-> 0, log |-> <<>>, events |-> {},
     depRead |-> "unread", merged |-> AbsentSpec, mergedV1 |-> AbsentSpec,
     state |-> "", conditions |-> NoConditions, deleteErrors |-> {}, after |-> "",
     spec |-> AbsentSpec, personality |-> PersonalitySpec, personalityRead |-> FALSE]

PassRecord(c) ==
    [i |-> c.i, kind |-> c.kind, faults |-> c.faults, err |-> c.err,
     statusError |-> c.statusError,
     statusWriteFailed |-> c.statusWriteFailed, requeue |-> c.requeue, log |-> c.log,
     events |-> c.events, depRead |-> c.depRead, merged |-> c.merged,
     mergedV1 |-> c.mergedV1, state |-> c.inst.state, conditions |-> c.inst.conditions,
     deleteErrors |-> c.deleteErrors,
     after |-> IF last.kind = "race" THEN "race" ELSE "",
     spec |-> c.inst.spec, personality |-> c.personality,
     personalityRead |-> c.personalityRead]

(***************************************************************************)
(* The controller's action: one whole pass. F is the set of API calls that *)
(* fail in it, drawn from sites; a set that changes nothing of the pass is *)
(* the empty set.                                                          *)
(***************************************************************************)
Reconcile(i, sites) ==
    \E plain \in {ReconcilePass(i, {})} :
    \E F \in SubsetsUpTo(sites, MaxFaults - faults) :
    \E c \in {ReconcilePass(i, F)} :
            /\ F # {} => [c EXCEPT !.faults = {}] # plain
            /\ instances' = [instances EXCEPT ![i] = c.stored]
            /\ namespaces' = c.nss
            /\ objects' = c.objs
            /\ edited' = c.editedObjs
            /\ mcpSecrets' = c.copies
            /\ available' = c.avail
            /\ faults' = faults + Cardinality(F)
            /\ last' = PassRecord(c)
            /\ UNCHANGED <<environment, library>>

(***************************************************************************)
(* The KlausMCPServer controller.                                          *)
(***************************************************************************)
validateSpec(spec) ==
    IF spec.type = "" THEN "spec.type is required"
    ELSE IF spec.type \in {"streamable-http", "sse", "http"} /\ spec.url = ""
    THEN "spec.url is required"
    ELSE IF spec.type = "stdio" /\ spec.command = ""
    THEN "spec.command is required"
    ELSE ""

validateSecrets(spec) ==
    \A k \in DOMAIN spec.secretRefs : spec.secretRefs[k].secretName \in opSecrets

ReconcileServer(s) ==
    /\ servers[s].exists
    /\ servers' = [servers EXCEPT ![s] =
          LET spec == servers[s].spec
          IN  IF validateSpec(spec) # ""
              THEN [@ EXCEPT !.ready = ConditionFalse, !.readyMessage = validateSpec(spec)]
              ELSE IF ~validateSecrets(spec)
              THEN [@ EXCEPT !.ready = ConditionFalse,
                             !.readyMessage = "One or more referenced Secrets are missing"]
              ELSE [@ EXCEPT !.ready = ConditionTrue, !.readyMessage = "MCP server is ready"]]
    /\ servers'[s] # servers[s]
    /\ last' = NoPass
    /\ UNCHANGED <<instances, opSecrets, apiKey, children, faults, library>>

(***************************************************************************)
(* Users and the rest of the cluster.                                      *)
(***************************************************************************)
CreateInstance(i, spec) ==
    /\ ~instances[i].exists
    /\ instances' = [instances EXCEPT ![i] =
          [exists |-> TRUE, deleting |-> FALSE, finalizer |-> FALSE, spec |-> spec,
           state |-> "", conditions |-> NoConditions, mcpServerCount |-> 0]]
    /\ last' = NoPass
    /\ UNCHANGED <<environment, children, faults, library>>

\* kubectl delete: the deletion timestamp is set while a finalizer holds
\* the object.
DeleteInstance(i) ==
    /\ instances[i].exists
    /\ ~instances[i].deleting
    /\ instances' = [instances EXCEPT ![i] =
          IF @.finalizer THEN [@ EXCEPT !.deleting = TRUE] ELSE AbsentInstance]
    /\ last' = NoPass
    /\ UNCHANGED <<environment, children, faults, library>>

\* A user edits spec.mcpServers.
UpdateInstance(i, refs) ==
    /\ instances[i].exists
    /\ ~instances[i].deleting
    /\ refs # instances[i].spec.mcpServers
    /\ instances' = [instances EXCEPT ![i].spec.mcpServers = refs]
    /\ last' = NoPass
    /\ UNCHANGED <<environment, children, faults, library>>

CreateServer(s, spec) ==
    /\ ~servers[s].exists
    /\ servers' = [servers EXCEPT ![s] = NewServer(spec)]
    /\ last' = NoPass
    /\ UNCHANGED <<instances, opSecrets, apiKey, children, faults, library>>

\* A source Secret of the operator namespace is created.
CreateSecret(n) ==
    /\ n \notin opSecrets
    /\ opSecrets' = opSecrets \cup {n}
    /\ last' = NoPass
    /\ UNCHANGED <<instances, servers, apiKey, children, faults, library>>

\* The Anthropic API key secret is provisioned, with or without its
\* api-key entry, or its entry is added.
ProvisionAPIKey(v) ==
    /\ apiKey # "present"
    /\ v # apiKey
    /\ apiKey' = v
    /\ last' = NoPass
    /\ UNCHANGED <<instances, servers, opSecrets, children, faults, library>>

\* The Deployment controller reports replicas available, or none.
SetAvailable(i) ==
    LET namespace == UserNamespace(instances[i].spec.owner)
        dep == <<namespace, DeploymentName(i)>>
    IN  /\ instances[i].exists
        /\ <<namespace, KindDeployment, DeploymentName(i)>> \in objects
        /\ available' = IF dep \in available THEN available \ {dep} ELSE available \cup {dep}
        /\ last' = NoPass
        /\ UNCHANGED <<instances, environment, namespaces, objects, mcpSecrets, edited, faults, library>>

(***************************************************************************)
(* The packages at rest: in the specifications of the cluster no merge is  *)
(* under observation and no personality artifact is pulled.                *)
(***************************************************************************)
\* A ResolvedMCPConfig without servers and without secrets.
NoResolved == [servers |-> <<>>, secrets |-> <<>>]

\* The cluster specifications keep one iteration order; SpecMerge varies
\* it.
EngineIdle ==
    /\ mergeBase = AbsentSpec
    /\ mergeOverride = AbsentSpec
    /\ mergeResolved = NoResolved
    /\ mergeOut = <<>>
    /\ mapSeed = "ascending"

OCIIdle ==
    /\ ociArtifacts = <<>>
    /\ ociCache = <<>>
    /\ ociHeap = <<>>
    /\ ociArrays = <<>>
    /\ ociPulls = <<>>

LibraryIdle == EngineIdle /\ OCIIdle

(***************************************************************************)
(* Specification Spec: the life of one instance that names no              *)
(* KlausMCPServer itself, from creation to the end of its deletion; its    *)
(* personality refers to svc-b, which declares no secret here.             *)
(***************************************************************************)
Init ==
    /\ instances = [i \in Instances |-> AbsentInstance]
    /\ servers = [s \in Servers |-> AbsentServer]
    /\ opSecrets = {}
    /\ apiKey = "absent"
    /\ namespaces = {}
    /\ objects = {}
    /\ edited = {}
    /\ mcpSecrets = {}
    /\ available = {}
    /\ faults = 0
    /\ last = NoPass
    /\ LibraryIdle

LifecycleSpecs ==
    {spec \in InstanceSpecs : /\ spec.owner = <<"a">>
                              /\ spec.mcpServers = <<>>
                              /\ spec.inlineMCP = <<>>}

Next ==
    \/ Reconcile("i1", FaultSites)
    \/ \E spec \in LifecycleSpecs : CreateInstance("i1", spec)
    \/ DeleteInstance("i1")
    \/ SetAvailable("i1")
    \/ \E v \in {"nofield", "present"} : ProvisionAPIKey(v)
    \/ CreateServer("svc-b", ServerSpec("sse", "u-b", <<>>))

Spec == Init /\ [][Next]_vars

(***************************************************************************)
(* Specification SpecDrift: one instance without references in a cluster   *)
(* whose API key is provisioned, and somebody who edits the child objects  *)
(* the operator wrote.                                                     *)
(***************************************************************************)
\* The kinds of child objects that get edited.
EditedKinds == {KindPVC, KindDeployment, KindMCPServer}

\* kubectl edit, or another controller: the content of an existing child
\* object is changed.
EditChild(key) ==
    /\ key \in objects
    /\ key \notin edited
    /\ key[2] \in EditedKinds
    /\ edited' = edited \cup {key}
    /\ last' = NoPass
    /\ UNCHANGED <<instances, environment, namespaces, objects, mcpSecrets, available, faults, library>>

InitDrift ==
    /\ instances = [i \in Instances |-> AbsentInstance]
    /\ servers = [s \in Servers |-> AbsentServer]
    /\ opSecrets = {}
    /\ apiKey = "present"
    /\ namespaces = {}
    /\ objects = {}
    /\ edited = {}
    /\ mcpSecrets = {}
    /\ available = {}
    /\ faults = 0
    /\ last = NoPass
    /\ LibraryIdle

DriftSpecs == {spec \in LifecycleSpecs : spec.personalityRef = ""}

\* The child objects instance i can have.
ChildKeys(i) ==
    UNION {{child[2] : child \in Range(ChildrenToDelete(i, spec))} : spec \in DriftSpecs}

NextDrift ==
    \/ Reconcile("i1", FaultSites)
    \/ \E spec \in DriftSpecs : CreateInstance("i1", spec)
    \/ DeleteInstance("i1")
    \/ SetAvailable("i1")
    \/ \E key \in ChildKeys("i1") : EditChild(key)

SpecDrift == InitDrift /\ [][NextDrift]_vars

(***************************************************************************)
(* Specification SpecRefs: one instance and the KlausMCPServers it names,  *)
(* in a cluster whose Anthropic API key is provisioned. Servers and their  *)
(* source Secrets appear while the instance is reconciled, and the user    *)
(* edits the list of references.                                           *)
(***************************************************************************)
\* The servers that hold a credential: svc-a declares "shared", svc-b
\* declares "shared" too or "tok".
RefServerSpecs(s) == {spec \in ServerSpecsOf(s) : spec.secretRefs # <<>>}

InitRefs ==
    /\ instances = [i \in Instances |-> AbsentInstance]
    /\ servers \in [Servers -> {AbsentServer} \cup
                                {NewServer(spec) : spec \in UNION {RefServerSpecs(s) : s \in Servers}}]
    /\ \A s \in Servers : servers[s].exists => servers[s].spec \in RefServerSpecs(s)
    /\ opSecrets = {"shared"}
    /\ apiKey = "present"
    /\ namespaces = {}
    /\ objects = {}
    /\ edited = {}
    /\ mcpSecrets = {}
    /\ available = {}
    /\ faults = 0
    /\ last = NoPass
    /\ LibraryIdle

RefSpecs ==
    {spec \in InstanceSpecs : /\ spec.owner = <<"a">>
                              /\ spec.personalityRef = ""
                              /\ spec.inlineMCP = <<>>
                              /\ spec.settingsFile = ""
                              /\ spec.workspace = "none"}

NextRefs ==
    \/ Reconcile("i1", FaultSites)
    \/ \E spec \in RefSpecs : CreateInstance("i1", spec)
    \/ \E refs \in RefLists : UpdateInstance("i1", refs)
    \/ DeleteInstance("i1")
    \/ \E s \in Servers : ReconcileServer(s)
    \/ \E n \in SecretNames : CreateSecret(n)
    \/ \E s \in Servers : \E spec \in RefServerSpecs(s) : CreateServer(s, spec)

SpecRefs == InitRefs /\ [][NextRefs]_vars

(***************************************************************************)
(* Specification SpecShared: two instances, of one owner or of two, that   *)
(* share KlausMCPServers and so the copies of their secrets. The servers   *)
(* and their source Secrets exist from the start.                          *)
(***************************************************************************)
InitShared ==
    /\ instances = [i \in Instances |-> AbsentInstance]
    /\ servers = [s \in Servers |->
                    NewServer(IF s = "svc-a"
                              THEN ServerSpec("http", "u-a", <<SecretRef("shared", "TOKEN_A", "k")>>)
                              ELSE ServerSpec("http", "u-b", <<SecretRef("tok", "TOKEN_B", "k")>>))]
    /\ opSecrets = SecretNames
    /\ apiKey = "present"
    /\ namespaces = {}
    /\ objects = {}
    /\ edited = {}
    /\ mcpSecrets = {}
    /\ available = {}
    /\ faults = 0
    /\ last = NoPass
    /\ LibraryIdle

\* The first instance belongs to owner a; the second to a or to b.
SharedSpecs(i) ==
    {spec \in InstanceSpecs : /\ spec.owner \in (IF i = "i1" THEN {<<"a">>} ELSE {<<"a">>, <<"b">>})
                              /\ spec.personalityRef = ""
                              /\ spec.inlineMCP = <<>>
                              /\ spec.settingsFile = ""
                              /\ spec.workspace = "none"
                              /\ Len(spec.mcpServers) <= 1}

\* The calls of the resolution and of the cleanup.
SharedFaultSites ==
    {site \in FaultSites : site[1] \in {"getServer", "copyMCPSecret", "gcList", "gcDelete"}}

NextShared ==
    \/ \E i \in Instances : Reconcile(i, SharedFaultSites)
    \/ \E i \in Instances : \E spec \in SharedSpecs(i) : CreateInstance(i, spec)
    \/ \E i \in Instances : DeleteInstance(i)

SpecShared == InitShared /\ [][NextShared]_vars

(***************************************************************************)
(* Specification SpecRace: SpecShared with a cleanup that is not atomic.   *)
(* cleanupStaleMCPSecrets lists the servers, the instances and the copied  *)
(* secrets and deletes afterwards, without a lock; a reference added, and  *)
(* its secret copied, between the lists and the delete is not in the lists.*)
(***************************************************************************)
\* The deletes (lines 723-730) of the cleanup run by a pass of instance x
\* whose lists (683-721) were read before the references to secret n were
\* added: n is deleted although an instance of the owner desires it now.
RacedCleanupDelete(x, n) ==
    LET namespace == UserNamespace(instances[x].spec.owner) IN
    /\ instances[x].exists
    /\ instances[x].finalizer
    /\ instances[x].deleting \/ Len(instances[x].spec.mcpServers) > 0
    /\ <<namespace, n>> \in mcpSecrets
    /\ n \in DesiredMCPSecrets(instances, servers, namespace)
    /\ mcpSecrets' = mcpSecrets \ {<<namespace, n>>}
    /\ last' = [NoPass EXCEPT !.i = x, !.kind = "race",
                              !.log = << <<"gcdelete", n, "">> >>]
    /\ UNCHANGED <<instances, environment, namespaces, objects, available, edited, faults, library>>

NextRace ==
    \/ NextShared
    \/ \E x \in Instances : \E n \in SecretNames : RacedCleanupDelete(x, n)

SpecRace == InitShared /\ [][NextRace]_vars

(***************************************************************************)
(* Specification SpecMerge: the merge functions on their own. A            *)
(* personality spec, an instance spec and a ResolvedMCPConfig are drawn    *)
(* from bounded sets; the working copy of the instance spec goes through   *)
(* MergePersonalityIntoInstance and then, as in a pass, through            *)
(* MergeResolvedMCPIntoInstance, or through the personality merge a second *)
(* time with the merged spec as the base.                                  *)
(***************************************************************************)
\* The cluster with nothing in it.
ClusterIdle ==
    /\ instances = [i \in Instances |-> AbsentInstance]
    /\ servers = [s \in Servers |-> AbsentServer]
    /\ opSecrets = {}
    /\ apiKey = "absent"
    /\ namespaces = {}
    /\ objects = {}
    /\ edited = {}
    /\ mcpSecrets = {}
    /\ available = {}
    /\ faults = 0
    /\ last = NoPass

\* Values of the fields handed to the merge. A PluginReference is
\* [repository, tag, digest]; lists hold up to MaxList entries.
PluginRefs == [repository : {<<"p1">>, <<"p2">>}, tag : {"v1", "v2"}, digest : {<<>>}]

\* Lists of MCPServerSecret, each naming one env var read from the given
\* key: a personality or a KlausMCPServer reads key k, an instance key k2.
SecretLists(key) ==
    SeqsUpTo({SecretRef(n, v, key) : n \in SecretNames, v \in {"TOKEN_A", "TOKEN_B"}}, MaxList)

\* Maps of raw configs (claude.mcpServers, hooks).
ConfigMaps ==
    {<<>>, ("svc-a" :> InlineConfig), ("svc-a" :> {<<"type", "http">>, <<"url", "u-x">>}),
     ("svc-b" :> InlineConfig)}

\* ResolvedMCPConfig.Servers.
ResolvedServerMaps ==
    {<<>>,
     ("svc-a" :> ServerConfigToRawExtension(ServerSpec("http", "u-a", <<>>))),
     ("svc-a" :> ServerConfigToRawExtension(ServerSpec("http", "u-a", <<>>))
        @@ "svc-b" :> ServerConfigToRawExtension(ServerSpec("sse", "u-b", <<>>)))}

\* The fields the merge handles, each with the values of the personality
\* and of the instance.
MergedFields ==
    {<<"model", {"", "A", "B"}, {"", "A", "B"}>>,
     <<"settingsFile", {"", "settings.json"}, {"", "settings.json"}>>,
     <<"addDirs", SeqsUpTo({"d1", "d2"}, MaxList), SeqsUpTo({"d1", "d2"}, MaxList)>>,
     <<"plugins", SeqsUpTo(PluginRefs, MaxList), SeqsUpTo(PluginRefs, MaxList)>>,
     <<"mcpServers", SeqsUpTo(Servers, MaxList), SeqsUpTo(Servers, MaxList)>>,
     <<"mcpServerSecrets", SecretLists("k"), SecretLists("k2")>>,
     <<"inlineMCP", ConfigMaps, ConfigMaps>>,
     <<"hooks", ConfigMaps, ConfigMaps>>}

\* A personality and an instance that differ from the empty spec in one
\* field: <<personality spec, instance spec, ResolvedMCPConfig>>.
PersonalityCases ==
    UNION {{<<[AbsentSpec EXCEPT ![f[1]] = b], [AbsentSpec EXCEPT ![f[1]] = o], NoResolved>> :
              b \in f[2], o \in f[3]} : f \in MergedFields}

\* An instance without personality, and what the resolution of its
\* references returned: inline secrets with resolved secrets, or inline
\* servers with resolved servers.
ResolutionCases ==
    {<<AbsentSpec, [AbsentSpec EXCEPT !.mcpServerSecrets = secrets],
       [servers |-> <<>>, secrets |-> rs]>> :
        secrets \in SecretLists("k2"), rs \in SecretLists("k")}
    \cup
    {<<AbsentSpec, [AbsentSpec EXCEPT !.inlineMCP = m], [servers |-> srv, secrets |-> <<>>]>> :
        m \in ConfigMaps, srv \in ResolvedServerMaps}

InitMerge ==
    /\ ClusterIdle
    /\ OCIIdle
    /\ \E case \in PersonalityCases \cup ResolutionCases :
          /\ mergeBase = case[1]
          /\ mergeOverride = case[2]
          /\ mergeResolved = case[3]
    /\ mergeOut = <<>>
    /\ mapSeed \in MapSeeds

\* resolvePersonality: the working copy is the instance spec with the
\* personality merged in.
MergePersonality ==
    /\ mergeOut = <<>>
    /\ mergeOut' = <<[call |-> "MergePersonalityIntoInstance", order |-> mapSeed,
                      spec |-> MergePersonalityIntoInstance(mergeBase, mergeOverride)]>>
    /\ mapSeed' \in MapSeeds
    /\ UNCHANGED <<mergeBase, mergeOverride, mergeResolved, cluster, ociClient>>

\* The merged spec is merged with the instance spec once more.
MergePersonalityAgain ==
    /\ Len(mergeOut) = 1
    /\ mergeOut' = Append(mergeOut,
                      [call |-> "MergePersonalityIntoInstance", order |-> mapSeed,
                       spec |-> MergePersonalityIntoInstance(mergeOut[1].spec, mergeOverride)])
    /\ mapSeed' \in MapSeeds
    /\ UNCHANGED <<mergeBase, mergeOverride, mergeResolved, cluster, ociClient>>

\* resolveMCPServers: the resolved configs and secrets are merged into the
\* working copy of a pass; a later pass over the same objects repeats it.
MergeResolvedConfig ==
    /\ Len(mergeOut) \in {1, 2}
    /\ \A k \in DOMAIN mergeOut : k > 1 => mergeOut[k].call = "MergeResolvedMCPIntoInstance"
    /\ mergeOut' = Append(mergeOut,
                      [call |-> "MergeResolvedMCPIntoInstance", order |-> mapSeed,
                       spec |-> MergeResolvedMCPIntoInstance(mergeResolved, mergeOut[1].spec)])
    /\ mapSeed' \in MapSeeds
    /\ UNCHANGED <<mergeBase, mergeOverride, mergeResolved, cluster, ociClient>>

NextMerge ==
    \/ MergePersonality
    \/ MergePersonalityAgain
    \/ MergeResolvedConfig

SpecMerge == InitMerge /\ [][NextMerge]_vars

(***************************************************************************)
(* The OCI client: PullPersonality and its digest cache. Memory is         *)
(* modelled with addresses: ociHeap holds the PersonalitySpec structs,     *)
(* ociArrays the backing arrays of their Plugins slices. Address 0 is nil  *)
(* (for a slice: nil or empty). Two reconcile workers call the client and  *)
(* then write to the template they were handed.                            *)
(***************************************************************************)
Digests == {"sha-a", "sha-b"}

Workers == {"r1", "r2"}

\* The parsed content of an artifact, as values.
Contents == [image : {"img"}, plugins : {<<>>, <<"p1">>, <<"p1", "p2">>}]

Edited == "edited"

NoPull ==
    [pc |-> "idle", digest |-> "", result |-> 0, returned |-> <<>>,
     hit |-> FALSE, afterEdit |-> FALSE, edited |-> FALSE]

\* The value held at an address: scalars and the elements of Plugins.
Deref(heap, arrays, a) ==
    [image |-> heap[a].image,
     plugins |-> IF heap[a].plugins = 0 THEN <<>> ELSE arrays[heap[a].plugins]]

\* ParsePersonalitySpec: a fresh struct, and a fresh array when plugins are
\* listed. Returns the new memory and the address.
ParsePersonalitySpec(heap, arrays, content) ==
    IF Len(content.plugins) > 0
    THEN [heap |-> Append(heap, [image |-> content.image, plugins |-> Len(arrays) + 1]),
          arrays |-> Append(arrays, content.plugins),
          addr |-> Len(heap) + 1]
    ELSE [heap |-> Append(heap, [image |-> content.image, plugins |-> 0]),
          arrays |-> arrays,
          addr |-> Len(heap) + 1]

\* Mutant: the struct is copied, the Plugins slice header with it.
copy_Shallow(heap, arrays, s) ==
    [heap |-> Append(heap, heap[s]),
     arrays |-> arrays,
     addr |-> Len(heap) + 1]

\* PersonalitySpec.copy: cp := *s, and a new Plugins array of the same
\* elements when there are any.
copy(heap, arrays, s) ==
    IF heap[s].plugins # 0 /\ Len(arrays[heap[s].plugins]) > 0
    THEN [heap |-> Append(heap, [heap[s] EXCEPT !.plugins = Len(arrays) + 1]),
          arrays |-> Append(arrays, arrays[heap[s].plugins]),
          addr |-> Len(heap) + 1]
    ELSE [heap |-> Append(heap, heap[s]),
          arrays |-> arrays,
          addr |-> Len(heap) + 1]

InitOCI ==
    /\ ClusterIdle
    /\ EngineIdle
    /\ ociArtifacts \in [Digests -> Contents]
    /\ ociCache = <<>>
    /\ ociHeap = <<>>
    /\ ociArrays = <<>>
    /\ ociPulls = [w \in Workers |-> NoPull]

\* Has another worker written to a template it was handed for this digest?
EditedElsewhere(w, d) ==
    \E o \in Workers \ {w} : ociPulls[o].digest = d /\ ociPulls[o].edited

\* PullPersonality up to the cache lookup: on a hit the call returns a copy
\* of the cached entry, on a miss it goes on to fetch without the lock.
PullLookup(w, d) ==
    /\ ociPulls[w].pc \in {"idle", "done"}
    /\ Len(ociHeap) + 2 <= MaxObjects
    /\ IF d \in DOMAIN ociCache
       THEN LET cp == copy(ociHeap, ociArrays, ociCache[d]) IN
            /\ ociHeap' = cp.heap
            /\ ociArrays' = cp.arrays
            /\ ociPulls' = [ociPulls EXCEPT ![w] =
                    [pc |-> "done", digest |-> d, result |-> cp.addr,
                     returned |-> Deref(cp.heap, cp.arrays, cp.addr),
                     hit |-> TRUE, afterEdit |-> EditedElsewhere(w, d),
                     edited |-> FALSE]]
       ELSE /\ ociPulls' = [ociPulls EXCEPT ![w] =
                    [NoPull EXCEPT !.pc = "fetching", !.digest = d]]
            /\ UNCHANGED <<ociHeap, ociArrays>>
    /\ UNCHANGED <<ociArtifacts, ociCache>>
    /\ UNCHANGED <<cluster, mergeBase, mergeOverride, mergeResolved, mergeOut, mapSeed>>

\* Mutant: the cache holds the digest stored last and nothing else.
PullStore_SingleEntry(w) ==
    /\ ociPulls[w].pc = "fetching"
    /\ LET d == ociPulls[w].digest
           spec == ParsePersonalitySpec(ociHeap, ociArrays, ociArtifacts[d])
           cp == copy(spec.heap, spec.arrays, spec.addr)
       IN
       /\ ociCache' = [k \in {d} |-> spec.addr]
       /\ ociHeap' = cp.heap
       /\ ociArrays' = cp.arrays
       /\ ociPulls' = [ociPulls EXCEPT ![w] =
               [pc |-> "done", digest |-> d, result |-> cp.addr,
                returned |-> Deref(cp.heap, cp.arrays, cp.addr),
                hit |-> FALSE, afterEdit |-> EditedElsewhere(w, d),
                edited |-> FALSE]]
    /\ UNCHANGED ociArtifacts
    /\ UNCHANGED <<cluster, mergeBase, mergeOverride, mergeResolved, mergeOut, mapSeed>>

\* PullPersonality after a miss: fetch and parse, store the parsed spec
\* under the digest, return a copy of it.
PullStore(w) ==
    /\ ociPulls[w].pc = "fetching"
    /\ LET d == ociPulls[w].digest
           spec == ParsePersonalitySpec(ociHeap, ociArrays, ociArtifacts[d])
           cp == copy(spec.heap, spec.arrays, spec.addr)
       IN
       /\ ociCache' = [k \in DOMAIN ociCache \cup {d} |->
                          IF k = d THEN spec.addr ELSE ociCache[k]]
       /\ ociHeap' = cp.heap
       /\ ociArrays' = cp.arrays
       /\ ociPulls' = [ociPulls EXCEPT ![w] =
               [pc |-> "done", digest |-> d, result |-> cp.addr,
                returned |-> Deref(cp.heap, cp.arrays, cp.addr),
                hit |-> FALSE, afterEdit |-> EditedElsewhere(w, d),
                edited |-> FALSE]]
    /\ UNCHANGED ociArtifacts
    /\ UNCHANGED <<cluster, mergeBase, mergeOverride, mergeResolved, mergeOut, mapSeed>>

\* PullPersonality after a miss, when the fetch, the extraction or the
\* parse fails: the error is returned and nothing is stored.
PullFails(w) ==
    /\ ociPulls[w].pc = "fetching"
    /\ ociPulls' = [ociPulls EXCEPT ![w] = [NoPull EXCEPT !.digest = ociPulls[w].digest]]
    /\ UNCHANGED <<ociArtifacts, ociCache, ociHeap, ociArrays>>
    /\ UNCHANGED <<cluster, mergeBase, mergeOverride, mergeResolved, mergeOut, mapSeed>>

\* The caller writes a scalar of the template it was handed.
EditImage(w) ==
    /\ ociPulls[w].pc = "done"
    /\ ociHeap[ociPulls[w].result].image # Edited
    /\ ociHeap' = [ociHeap EXCEPT ![ociPulls[w].result].image = Edited]
    /\ ociPulls' = [ociPulls EXCEPT ![w].edited = TRUE]
    /\ UNCHANGED <<ociArtifacts, ociCache, ociArrays>>
    /\ UNCHANGED <<cluster, mergeBase, mergeOverride, mergeResolved, mergeOut, mapSeed>>

\* The caller writes an element of the Plugins slice it was handed.
EditPlugin(w) ==
    /\ ociPulls[w].pc = "done"
    /\ LET arr == ociHeap[ociPulls[w].result].plugins IN
       /\ arr # 0
       /\ \E i \in 1..Len(ociArrays[arr]) :
              /\ ociArrays[arr][i] # Edited
              /\ ociArrays' = [ociArrays EXCEPT ![arr][i] = Edited]
    /\ ociPulls' = [ociPulls EXCEPT ![w].edited = TRUE]
    /\ UNCHANGED <<ociArtifacts, ociCache, ociHeap>>
    /\ UNCHANGED <<cluster, mergeBase, mergeOverride, mergeResolved, mergeOut, mapSeed>>

NextOCI ==
    \/ \E w \in Workers, d \in Digests : PullLookup(w, d)
    \/ \E w \in Workers : PullStore(w)
    \/ \E w \in Workers : PullFails(w)
    \/ \E w \in Workers : EditImage(w)
    \/ \E w \in Workers : EditPlugin(w)

SpecOCI == InitOCI /\ [][NextOCI]_vars

(***************************************************************************)
(* Specification SpecTemplate: one instance of owner a, with or without    *)
(* the personality, which names svc-b and holds an inline config for it.   *)
(* Both KlausMCPServers exist, are ready and declare a secret whose source *)
(* exists; the user namespace exists already (an earlier instance of the   *)
(* owner) or not. The user edits the references; no API call fails.        *)
(* SpecTemplateFair adds that the controller keeps reconciling and that a  *)
(* Deployment, once written, becomes available.                            *)
(***************************************************************************)
ReadyServer(spec) ==
    [NewServer(spec) EXCEPT !.ready = ConditionTrue, !.readyMessage = "MCP server is ready"]

InitTemplate ==
    /\ instances = [i \in Instances |-> AbsentInstance]
    /\ servers = [s \in Servers |->
                    ReadyServer(IF s = "svc-a"
                                THEN ServerSpec("http", "u-a", <<SecretRef("shared", "TOKEN_A", "k")>>)
                                ELSE ServerSpec("http", "u-b", <<SecretRef("tok", "TOKEN_B", "k")>>))]
    /\ opSecrets = SecretNames
    /\ apiKey = "present"
    /\ namespaces \in {{}, {UserNamespace(<<"a">>)}}
    /\ objects = {}
    /\ edited = {}
    /\ mcpSecrets = {}
    /\ available = {}
    /\ faults = 0
    /\ last = NoPass
    /\ LibraryIdle

TemplateSpecs ==
    {spec \in InstanceSpecs : /\ spec.owner = <<"a">>
                              /\ spec.settingsFile = ""
                              /\ spec.workspace = "none"}

\* The Deployment controller reports the replicas of a new Deployment
\* available. The record of the last pass stays: here it is cleared by the
\* user's changes only.
BecomesAvailable(i) ==
    LET namespace == UserNamespace(instances[i].spec.owner)
        dep == <<namespace, DeploymentName(i)>>
    IN  /\ instances[i].exists
        /\ <<namespace, KindDeployment, DeploymentName(i)>> \in objects
        /\ dep \notin available
        /\ available' = available \cup {dep}
        /\ UNCHANGED <<instances, environment, namespaces, objects, mcpSecrets, edited,
                       faults, last, library>>

NextTemplate ==
    \/ Reconcile("i1", {})
    \/ \E spec \in TemplateSpecs : CreateInstance("i1", spec)
    \/ \E refs \in RefLists : UpdateInstance("i1", refs)
    \/ DeleteInstance("i1")
    \/ BecomesAvailable("i1")

SpecTemplate == InitTemplate /\ [][NextTemplate]_vars

\* A pass for instance i in which no call fails would change nothing: the
\* controller's step is not enabled.
PassSettled(i) ==
    LET c == ReconcilePass(i, {}) IN
    /\ c.stored = instances[i]
    /\ c.nss = namespaces
    /\ c.objs = objects
    /\ c.editedObjs = edited
    /\ c.copies = mcpSecrets
    /\ c.avail = available
    /\ PassRecord(c) = last

\* Weak fairness of the controller's pass, WF_vars(Reconcile("i1", {})),
\* with its enabling condition written as ~PassSettled("i1"), and weak
\* fairness of the Deployment controller.
SpecTemplateFair ==
    /\ SpecTemplate
    /\ ([]<>PassSettled("i1") \/ []<><<Reconcile("i1", {})>>_vars)
    /\ WF_vars(BecomesAvailable("i1"))

(***************************************************************************)
(* Specification SpecEdit: one instance without references whose spec the  *)
(* user edits while it lives: the owner, and the workspace with its git    *)
(* credential. The API key is provisioned and no API call fails.           *)
(***************************************************************************)
EditSpecs ==
    {spec \in InstanceSpecs : /\ spec.personalityRef = ""
                              /\ spec.mcpServers = <<>>
                              /\ spec.inlineMCP = <<>>
                              /\ spec.settingsFile = ""}

\* kubectl edit: the spec of a live instance is replaced.
EditSpec(i, spec) ==
    /\ instances[i].exists
    /\ ~instances[i].deleting
    /\ spec # instances[i].spec
    /\ instances' = [instances EXCEPT ![i].spec = spec]
    /\ last' = NoPass
    /\ UNCHANGED <<environment, children, faults, library>>

NextEdit ==
    \/ Reconcile("i1", {})
    \/ \E spec \in EditSpecs : CreateInstance("i1", spec)
    \/ \E spec \in EditSpecs : EditSpec("i1", spec)
    \/ DeleteInstance("i1")
    \/ SetAvailable("i1")

SpecEdit == InitDrift /\ [][NextEdit]_vars

(***************************************************************************)
(* Specification SpecOverride: one instance whose inline MCP server map    *)
(* names a server it also references; the inline entry differs from the    *)
(* config of the KlausMCPServer or equals it. Servers come and go as in    *)
(* SpecRefs; no API call fails.                                            *)
(***************************************************************************)
InlineMaps ==
    {<<>>,
     "svc-a" :> InlineConfig,
     "svc-a" :> ServerConfigToRawExtension(ServerSpec("http", "u-a", <<>>)),
     "svc-b" :> InlineConfig}

OverrideSpecs == {[spec EXCEPT !.inlineMCP = m] : spec \in RefSpecs, m \in InlineMaps}

NextOverride ==
    \/ Reconcile("i1", {})
    \/ \E spec \in OverrideSpecs : CreateInstance("i1", spec)
    \/ DeleteInstance("i1")
    \/ \E s \in Servers : ReconcileServer(s)
    \/ \E n \in SecretNames : CreateSecret(n)
    \/ \E s \in Servers : \E spec \in RefServerSpecs(s) : CreateServer(s, spec)

SpecOverride == InitRefs /\ [][NextOverride]_vars

(***************************************************************************)
(* Specification SpecTenants: two instances whose owners are written       *)
(* differently: in another case, or with a character that is not DNS-safe. *)
(* The servers and their source Secrets exist as in SpecShared; no API     *)
(* call fails.                                                             *)
(***************************************************************************)
\* The first instance belongs to owner a; the second to an owner of
\* another spelling.
TenantOwners(i) == IF i = "i1" THEN {<<"a">>} ELSE {<<"A">>, <<"a", "@">>, <<"b">>}

TenantSpecs(i) ==
    {[spec EXCEPT !.owner = owner] :
        spec \in {x \in SharedSpecs("i1") : x.mcpServers \in {<<>>, <<"svc-a">>}},
        owner \in TenantOwners(i)}

NextTenants ==
    \/ \E i \in Instances : Reconcile(i, {})
    \/ \E i \in Instances : \E spec \in TenantSpecs(i) : CreateInstance(i, spec)
    \/ \E i \in Instances : DeleteInstance(i)

SpecTenants == InitShared /\ [][NextTenants]_vars

(***************************************************************************)
(* Properties of the most recent pass, read from its record.               *)
(***************************************************************************)
LogHas(tag, subject, detail) == <<tag, subject, detail>> \in Range(last.log)

StepDone(step) == LogHas("ok", step, "")

\* The positions of the log at which an object was created or updated.
WritePositions == {k \in DOMAIN last.log : last.log[k][1] = "write"}

\* Step succeeded at a position of the log before k.
DoneBefore(step, k) == \E j \in 1..(k - 1) : last.log[j] = <<"ok", step, "">>

\* The references for which the pass copied a secret, and the copied names.
CopiedFor == {last.log[k][2] : k \in {j \in DOMAIN last.log : last.log[j][1] = "copy"}}

GCDeleted == {last.log[k][2] : k \in {j \in DOMAIN last.log : last.log[j][1] = "gcdelete"}}

\* The status writes of the pass that were stored, as <<state, Ready status>>.
StatusWrites ==
    {<<last.log[k][2], last.log[k][3]>> : k \in {j \in DOMAIN last.log : last.log[j][1] = "status"}}

ChildDeleteSites ==
    {"Deployment", "Service", "ConfigMap", "APIKeySecret", "ServiceAccount",
     "PersistentVolumeClaim", "GitSecret", "MCPServer"}

\* C1: in a deletion pass in which a delete call of a child object failed
\* with an error other than NotFound, the instance still exists with its
\* finalizer when the pass ends, and the pass returned an error.
C1_FinalizerKeptWhenChildDeleteFails ==
    (last.kind = "delete" /\ last.deleteErrors \cap ChildDeleteSites # {}) =>
        /\ instances[last.i].exists
        /\ instances[last.i].deleting
        /\ instances[last.i].finalizer
        /\ last.err # NoError
        /\ ~StepDone("RemoveFinalizer")

\* A deletion pass in which the Service delete failed after the Deployment
\* was deleted, and the instance is still held.
C1_Witness ==
    /\ last.kind = "delete"
    /\ "Service" \in last.deleteErrors
    /\ LogHas("delete", "Deployment", "")
    /\ LogHas("delete", "MCPServer", "")
    /\ instances[last.i].finalizer
    /\ last.err.message = <<"cleaning up child resources", "">>

\* Instance x, other than the one the pass was for, is live, belongs to the
\* owner and names a KlausMCPServer that declares the secret n.
OtherLiveReferrer(x, owner, n) ==
    /\ x # last.i
    /\ instances[x].exists
    /\ ~instances[x].deleting
    /\ instances[x].spec.owner = owner
    /\ \E r \in Range(instances[x].spec.mcpServers) : n \in ServerSecretNames(servers, r)

CollidingRefs(refs) ==
    \E j, k \in DOMAIN refs :
        /\ refs[j] # refs[k]
        /\ servers[refs[j]].exists
        /\ servers[refs[k]].exists
        /\ ServerSecretNames(servers, refs[j]) \cap ServerSecretNames(servers, refs[k]) # {}

CollisionError ==
    /\ last.err.reason = "MCPServerRefError"
    /\ last.err.message[1] = "secret name collision"

\* C3: when two distinct references of the instance declare the same secret
\* name and the resolution ends with the collision error, the resolution has
\* copied no secret to the user namespace.
C3_CollisionCopiesNothing ==
    (last.kind = "reconcile" /\ CollidingRefs(last.mergedV1.mcpServers) /\ CollisionError)
        => CopiedFor = {}

\* C4: when the resolution of the references fails, whichever reference it
\* fails at, the working copy of the spec is what it was before the
\* resolution (nothing of the references resolved earlier is merged) and the
\* pass creates or updates no object.
C4_FailedResolutionMergesNothing ==
    (last.kind = "reconcile" /\ last.err.reason = "MCPServerRefError") =>
        /\ last.merged = last.mergedV1
        /\ WritePositions = {}
        /\ ~StepDone("resolveMCPServers")

\* svc-a was resolved and its secret copied, then svc-b was not found.
C4_Witness ==
    /\ last.kind = "reconcile"
    /\ last.err = [reason |-> "MCPServerRefError",
                   message |-> <<"resolving MCP server", "svc-b">>]
    /\ LogHas("copy", "svc-a", "shared")
    /\ last.mergedV1.mcpServers = <<"svc-a", "svc-b">>
    /\ last.merged.inlineMCP = <<>>

\* C5: every object a pass creates or updates (namespace, API key copy, git
\* secret copy, ConfigMap, PVC, ServiceAccount, Deployment, Service,
\* MCPServer) is written after the personality resolution, the MCP server
\* resolution and the validation of the merged spec succeeded, in that
\* order, in the same pass.
C5_WritesFollowResolutionAndValidation ==
    \A k \in WritePositions :
        /\ last.kind = "reconcile"
        /\ DoneBefore("ValidateSpec", k)
        /\ \E v \in 1..(k - 1) :
              /\ last.log[v] = <<"ok", "ValidateSpec", "">>
              /\ \E m \in 1..(v - 1) :
                    /\ last.log[m] = <<"ok", "resolveMCPServers", "">>
                    /\ DoneBefore("resolvePersonality", m)

\* A pass that merged the personality, resolved the reference it brings and
\* applied everything down to the MCPServer registration.
C5_Witness ==
    /\ last.kind = "reconcile"
    /\ LogHas("write", "Namespace", "")
    /\ LogHas("write", "Deployment", "")
    /\ LogHas("write", "MCPServer", "")
    /\ last.mergedV1.personalityRef # ""
    /\ last.mergedV1.mcpServers = <<"svc-b">>
    /\ "svc-b" \in DOMAIN last.merged.inlineMCP

\* C6: a pass stores state Running, and a True Ready condition, only when
\* its read of the Deployment found available replicas.
C6_RunningOnlyWhenAvailable ==
    \A w \in StatusWrites :
        (w[1] = InstanceStateRunning \/ w[2] = ConditionTrue) =>
            /\ w = <<InstanceStateRunning, ConditionTrue>>
            /\ last.depRead = "available"
            /\ last.kind = "reconcile"

C6_Witness ==
    /\ <<InstanceStateRunning, ConditionTrue>> \in StatusWrites
    /\ last.depRead = "available"
    /\ instances[last.i].state = InstanceStateRunning
    /\ instances[last.i].conditions[ConditionReady].status = ConditionTrue

\* The references of the pass whose KlausMCPServer has Ready explicitly False.
NotReadyRefs ==
    {r \in Range(last.mergedV1.mcpServers) :
        servers[r].exists /\ servers[r].ready = ConditionFalse}

StoredError(i, err) ==
    /\ instances[i].state = InstanceStateError
    /\ instances[i].conditions[ConditionReady] =
          [status |-> ConditionFalse, reason |-> err.reason, message |-> err.message]

C9_MissingAPIKeyRequeues ==
    (/\ last.kind = "reconcile"
     /\ StepDone("ensureNamespace")
     /\ apiKey = "absent"
     /\ <<"getAPIKey", "">> \notin last.faults) =>
        /\ last.err = NoError
        /\ ~last.statusError
        /\ last.requeue = RequeueAPIKeySeconds
        /\ \A w \in StatusWrites : w[1] = InstanceStatePending
        /\ ~LogHas("write", "APIKeySecret", "")
        /\ ~StepDone("copyAPIKeySecret")

C9_Witness ==
    /\ last.kind = "reconcile"
    /\ StepDone("ensureNamespace")
    /\ apiKey = "absent"
    /\ last.faults = {}
    /\ last.requeue = RequeueAPIKeySeconds
    /\ instances[last.i].state = InstanceStatePending

\* C10: a pass in which only the MCPServer registration failed, and whose
\* read of the Deployment found available replicas, returns no error and
\* stores state Running with Ready True, the MCPServerReady condition False
\* and a Warning event for the registration.
C10_RegistrationFailureDoesNotBlockRunning ==
    (/\ last.kind = "reconcile"
     /\ last.faults = {<<"apply", "MCPServer">>}
     /\ StepDone("reconcileService")
     /\ last.depRead = "available") =>
        /\ last.err = NoError
        /\ instances[last.i].state = InstanceStateRunning
        /\ instances[last.i].conditions[ConditionReady].status = ConditionTrue
        /\ instances[last.i].conditions[ConditionMCPServerReady].status = ConditionFalse
        /\ \E e \in last.events : e[1] = "Warning" /\ e[2] = "MCPServerError"
        /\ ~LogHas("write", "MCPServer", "")

C10_Witness ==
    /\ last.kind = "reconcile"
    /\ last.faults = {<<"apply", "MCPServer">>}
    /\ LogHas("write", "Service", "")
    /\ instances[last.i].state = InstanceStateRunning
    /\ instances[last.i].conditions[ConditionMCPServerReady].status = ConditionFalse

\* The calls of a deletion pass other than the deletes of the children.
DeleteSupportFaults ==
    {f \in last.faults : f[1] \in {"gcList", "gcDelete", "updateInstance"}}

ChildDeleteFaults == {f \in last.faults : f[1] = "delete"}

\* The children the deletion pass of the instance goes through.
DeletedChildSites ==
    {child[1] : child \in Range(ChildrenToDelete(last.i, last.merged))}

\* C11 as stated: a deletion pass in which every delete call of a child
\* succeeds or returns NotFound removes the finalizer, so that the instance
\* is gone when the pass ends.
C11_CleanDeletesReleaseInstance ==
    (last.kind = "delete" /\ ChildDeleteFaults = {}) =>
        /\ StepDone("RemoveFinalizer")
        /\ ~instances[last.i].exists

\* C11 as amended: a deletion pass in which every delete call of a child
\* succeeds or returns NotFound, the stale secret cleanup succeeds and the
\* update that removes the finalizer succeeds, removes the finalizer and
\* returns no error; every child was gone through and none is left.
C11_CleanPassReleasesInstance ==
    (last.kind = "delete" /\ ChildDeleteFaults = {} /\ DeleteSupportFaults = {}) =>
        /\ StepDone("RemoveFinalizer")
        /\ ~instances[last.i].exists
        /\ last.err = NoError
        /\ last.deleteErrors = {}
        /\ \A child \in Range(ChildrenToDelete(last.i, last.merged)) :
              /\ child[2] \notin objects
              /\ LogHas("delete", child[1], "") \/ LogHas("delete", child[1], "NotFound")

\* A deletion pass that found the ConfigMap and no Deployment, and released
\* the instance.
C11_Witness ==
    /\ last.kind = "delete"
    /\ LogHas("delete", "Deployment", "NotFound")
    /\ LogHas("delete", "ConfigMap", "")
    /\ StepDone("RemoveFinalizer")
    /\ ~instances[last.i].exists

\* C12 as stated: a deletion pass in which only the stale secret cleanup
\* failed (every delete of a child succeeded or returned NotFound, and the
\* update of the instance is not failing) removes the finalizer.
C12_CleanupFailureDoesNotHold ==
    (/\ last.kind = "delete"
     /\ "cleanupStaleMCPSecrets" \in last.deleteErrors
     /\ ChildDeleteFaults = {}
     /\ <<"updateInstance", "">> \notin last.faults) =>
        /\ StepDone("RemoveFinalizer")
        /\ ~instances[last.i].exists

\* C12 as amended: the error of the stale secret cleanup is collected with
\* the errors of the deletes. When the cleanup fails in a deletion pass the
\* children are still gone through, but the pass returns the error of the
\* cleanup and the instance keeps its finalizer.
C12_CleanupFailureHoldsFinalizer ==
    (last.kind = "delete" /\ DeleteSupportFaults \cap {<<"gcList", "">>} # {}) =>
        /\ "cleanupStaleMCPSecrets" \in last.deleteErrors
        /\ last.err = [reason |-> "", message |-> <<"cleaning up child resources", "">>]
        /\ ~StepDone("RemoveFinalizer")
        /\ instances[last.i].exists
        /\ instances[last.i].finalizer
        /\ instances[last.i].deleting
        /\ \A site \in DeletedChildSites \ last.deleteErrors :
              LogHas("delete", site, "") \/ LogHas("delete", site, "NotFound")

\* Only the cleanup failed: the Deployment and the Service were deleted and
\* the instance is still held.
C12_Witness ==
    /\ last.kind = "delete"
    /\ last.deleteErrors = {"cleanupStaleMCPSecrets"}
    /\ LogHas("delete", "Deployment", "")
    /\ LogHas("delete", "Service", "")
    /\ instances[last.i].finalizer

\* The calls that follow the read of the Deployment and end the pass with
\* an error when they fail.
FaultsAfterDeploymentRead ==
    last.faults \cap {<<"apply", "Service">>, <<"updateStatus", "">>}

\* The pass read the Deployment, found no available replica and went on to
\* its end without a failing call.
PendingPass ==
    /\ last.kind = "reconcile"
    /\ last.depRead = "unavailable"
    /\ FaultsAfterDeploymentRead = {}

\* C13: a pass that applied everything and read zero available replicas
\* stores state Pending with Ready False, returns no error and asks for a
\* requeue after the fixed delay; and a pass for an instance in state
\* Pending that reads a positive count, and in which the Service apply and
\* the status write succeed, stores state Running with Ready True.
C13_PendingThenRunning ==
    /\ [](PendingPass =>
            /\ instances[last.i].state = InstanceStatePending
            /\ instances[last.i].conditions[ConditionReady].status = ConditionFalse
            /\ instances[last.i].conditions[ConditionReady].reason = "Progressing"
            /\ last.err = NoError
            /\ last.requeue = RequeuePendingSeconds
            /\ LogHas("write", "Deployment", ""))
    /\ [][\A i \in Instances :
            (/\ instances[i].exists
             /\ instances[i].state = InstanceStatePending
             /\ last'.kind = "reconcile"
             /\ last'.i = i
             /\ last'.depRead = "available"
             /\ last'.faults \cap {<<"apply", "Service">>, <<"updateStatus", "">>} = {}) =>
                /\ instances'[i].state = InstanceStateRunning
                /\ instances'[i].conditions[ConditionReady].status = ConditionTrue
                /\ last'.err = NoError
                /\ last'.requeue = 0]_vars

\* A pass without a failing call left the instance Pending with the requeue
\* of the rollout.
C13_Witness ==
    /\ PendingPass
    /\ last.faults = {}
    /\ instances[last.i].state = InstanceStatePending
    /\ last.requeue = RequeuePendingSeconds
    /\ LogHas("write", "MCPServer", "")

\* C14 as stated: after a pass that observed the deletion timestamp, an
\* instance that still exists has state Deleting.
C14_DeletingDuringTeardown ==
    (last.kind = "delete" /\ instances[last.i].exists) =>
        instances[last.i].state = "Deleting"

\* The states an instance's status can hold.
InstanceStates ==
    {"", InstanceStatePending, InstanceStateRunning, InstanceStateError}

\* C14, amended: there is no Deleting state; a pass that observes the
\* deletion timestamp writes no status, so while the instance is being
\* deleted its state and conditions stay what they were before, Pending,
\* Running or Error included, until the finalizer is cleared.
C14_TeardownKeepsState ==
    /\ [](\A i \in Instances : instances[i].state \in InstanceStates)
    /\ [][\A i \in Instances :
            (instances[i].exists /\ instances[i].deleting /\ instances'[i].exists) =>
                /\ instances'[i].state = instances[i].state
                /\ instances'[i].conditions = instances[i].conditions
                /\ instances'[i].deleting]_vars
    /\ [](last.kind = "delete" => \A k \in 1..Len(last.log) : last.log[k][1] # "status")

\* A deletion pass kept the finalizer of an instance whose state is Running.
C14_Witness ==
    /\ last.kind = "delete"
    /\ last.deleteErrors # {}
    /\ instances[last.i].exists
    /\ instances[last.i].deleting
    /\ instances[last.i].state = InstanceStateRunning

\* The stored status of instance i says that the resolution failed at
\* fetching a KlausMCPServer.
FailedOnAbsentServer(i) ==
    /\ instances[i].exists
    /\ instances[i].state = InstanceStateError
    /\ instances[i].conditions[ConditionReady].reason = "MCPServerRefError"
    /\ instances[i].conditions[ConditionReady].message[1] = "resolving MCP server"

\* Every KlausMCPServer that refs names exists, is not marked not ready, and
\* declares only secrets that exist in the operator namespace, and no two
\* of them declare the same secret.
ReferencesResolvable(refs) ==
    /\ \A k \in DOMAIN refs :
          /\ servers[refs[k]].exists
          /\ servers[refs[k]].ready # ConditionFalse
          /\ ServerSecretNames(servers, refs[k]) \subseteq opSecrets
    /\ ~CollidingRefs(refs)

\* C15: when an instance whose stored status says that a referenced
\* KlausMCPServer could not be fetched is reconciled again, unedited, in a
\* pass without a failing call, and every server it names now exists and
\* can be resolved, the pass does not store state Error.
C15_AbsentReferenceSelfHeals ==
    [][\A i \in Instances :
          (/\ FailedOnAbsentServer(i)
           /\ last'.kind = "reconcile"
           /\ last'.i = i
           /\ last'.faults = {}
           /\ instances'[i].spec = instances[i].spec
           /\ ReferencesResolvable(instances[i].spec.mcpServers)) =>
              instances'[i].state # InstanceStateError]_vars

\* The secrets that the KlausMCPServers named by instance y declare.
SecretsDesiredBy(y) ==
    UNION {ServerSecretNames(servers, r) : r \in Range(instances[y].spec.mcpServers)}

\* C16 as stated: every credential that a non-deleting instance desires
\* comes to exist: after a pass of the instance in which no call fails, its
\* servers being resolvable, every secret it desires is in the user
\* namespace.
C16_DesiredCredentialsExist ==
    [][\A y \in Instances :
          (/\ instances[y].exists
           /\ ~instances[y].deleting
           /\ ReferencesResolvable(instances[y].spec.mcpServers)
           /\ last'.kind = "reconcile"
           /\ last'.i = y
           /\ last'.faults = {}) =>
              \A n \in SecretsDesiredBy(y) :
                 <<UserNamespace(instances[y].spec.owner), n>> \in mcpSecrets']_vars

\* C16, the race alone: when a cleanup whose lists predate a reference has deleted the
\* copy of a secret that a non-deleting instance desires, the next pass of
\* that instance in which no call fails, its servers being resolvable,
\* writes the copy again: after it every secret the instance desires is in
\* the user namespace, the raced one included.
C16_RacedDeleteIsRepaired ==
    [][\A y \in Instances :
          (/\ last.kind = "race"
           /\ instances[y].exists
           /\ ~instances[y].deleting
           /\ last.log[1][2] \in SecretsDesiredBy(y)
           /\ UserNamespace(instances[y].spec.owner) = UserNamespace(instances[last.i].spec.owner)
           /\ ReferencesResolvable(instances[y].spec.mcpServers)
           /\ last'.kind = "reconcile"
           /\ last'.i = y
           /\ last'.faults = {}) =>
              /\ \A n \in SecretsDesiredBy(y) :
                    <<UserNamespace(instances[y].spec.owner), n>> \in mcpSecrets'
              /\ \E k \in DOMAIN last'.log :
                    last'.log[k][1] = "copy" /\ last'.log[k][3] = last.log[1][2]
              /\ last'.err = NoError]_vars

\* The pass that followed a raced delete copied the secret again for an
\* instance that had completed a pass before.
C16_Witness ==
    /\ last.kind = "reconcile"
    /\ last.after = "race"
    /\ last.faults = {}
    /\ instances[last.i].conditions[ConditionReady].reason = "Progressing"
    /\ \E n \in SecretsDesiredBy(last.i) :
          /\ LogHas("copy", instances[last.i].spec.mcpServers[1], n)
          /\ <<UserNamespace(instances[last.i].spec.owner), n>> \in mcpSecrets

\* The steps of a pass that apply a dependent object, in the order of the
\* claim, each with the object it writes and the reason of its failure.
ApplySteps ==
    << [step |-> "ensureNamespace", object |-> "Namespace", reason |-> "NamespaceError"],
       [step |-> "copyAPIKeySecret", object |-> "APIKeySecret", reason |-> "SecretError"],
       [step |-> "reconcileConfigMap", object |-> "ConfigMap", reason |-> "ConfigMapError"],
       [step |-> "reconcilePVC", object |-> "PersistentVolumeClaim", reason |-> "PVCError"],
       [step |-> "ensureServiceAccount", object |-> "ServiceAccount",
        reason |-> "ServiceAccountError"],
       [step |-> "reconcileDeployment", object |-> "Deployment", reason |-> "DeploymentError"],
       [step |-> "reconcileService", object |-> "Service", reason |-> "ServiceError"],
       [step |-> "reconcileMCPServer", object |-> "MCPServer", reason |-> "MCPServerError"] >>

\* The position of an object in that order; 0 for any other object.
ApplyRank(object) ==
    IF \E k \in DOMAIN ApplySteps : ApplySteps[k].object = object
    THEN CHOOSE k \in DOMAIN ApplySteps : ApplySteps[k].object = object
    ELSE 0

\* The pass attempted step k: the step succeeded, or the pass reports its
\* failure, as the error it returns or, for the last step, as an event.
StepAttempted(k) ==
    \/ StepDone(ApplySteps[k].step)
    \/ LogHas("write", ApplySteps[k].object, "")
    \/ /\ last.err.reason = ApplySteps[k].reason
       /\ last.err.message # <<"get deployment", "">>
    \/ \E e \in last.events : e[1] = "Warning" /\ e[2] = ApplySteps[k].reason

\* C17: the objects a pass writes are written in the order namespace, API
\* key copy, ConfigMap, PVC, ServiceAccount, Deployment, Service, MCPServer,
\* and a step of that order is attempted only in a pass in which every
\* earlier step of the order succeeded.
C17_AppliesInFixedOrder ==
    /\ \A j, k \in WritePositions :
          (j < k /\ ApplyRank(last.log[j][2]) > 0 /\ ApplyRank(last.log[k][2]) > 0) =>
              ApplyRank(last.log[j][2]) < ApplyRank(last.log[k][2])
    /\ \A k \in DOMAIN ApplySteps :
          StepAttempted(k) =>
              /\ last.kind = "reconcile"
              /\ \A m \in 1..(k - 1) :
                    \E p \in DOMAIN last.log :
                       /\ last.log[p] = <<"ok", ApplySteps[m].step, "">>
                       /\ \A q \in WritePositions :
                             last.log[q][2] = ApplySteps[k].object => p < q

\* A pass whose Deployment apply failed after the first five steps, the PVC
\* included, had written their objects; it wrote nothing after them.
C17_Witness ==
    /\ last.kind = "reconcile"
    /\ last.err.reason = "DeploymentError"
    /\ last.err.message = <<"deployment", "">>
    /\ LogHas("write", "Namespace", "")
    /\ LogHas("write", "APIKeySecret", "")
    /\ LogHas("write", "ConfigMap", "")
    /\ LogHas("write", "PersistentVolumeClaim", "")
    /\ LogHas("write", "ServiceAccount", "")
    /\ ~LogHas("write", "Service", "")
    /\ ~LogHas("write", "MCPServer", "")

\* The child objects of the instance of the pass, as built from its merged
\* spec.
DependentObjects == {child[2] : child \in Range(ChildrenToDelete(last.i, last.merged))}

PVCKey(i) == <<UserNamespace(instances[i].spec.owner), KindPVC, PVCName(i)>>

\* The pass went through every apply and the final status write, and no
\* call failed in it.
SuccessfulPass ==
    /\ last.kind = "reconcile"
    /\ last.faults = {}
    /\ last.err = NoError
    /\ StepDone("reconcileMCPServer")

\* C18 as stated: after a successful pass every dependent object exists
\* with the content the operator writes, whatever it held before.
C18_EveryApplyIsUpsert ==
    SuccessfulPass => \A key \in DependentObjects : key \in objects /\ key \notin edited

\* C18, amended: every apply but that of the PVC is a create-or-update.
\* After a successful pass each dependent object exists, and each but a PVC
\* that was there before has the content the operator writes; a PVC is
\* created when absent and an existing one is left as it is, whatever it
\* holds. Repeating a successful pass changes no object and no status.
C18_UpsertExceptExistingPVC ==
    /\ [](SuccessfulPass =>
            \A key \in DependentObjects :
               /\ key \in objects
               /\ (key[2] # KindPVC \/ LogHas("write", "PersistentVolumeClaim", "")) =>
                     key \notin edited)
    /\ [][\A i \in Instances :
            (PVCKey(i) \in edited /\ last'.kind = "reconcile" /\ last'.i = i) =>
                /\ PVCKey(i) \in edited'
                /\ \A k \in DOMAIN last'.log :
                      last'.log[k] # <<"write", "PersistentVolumeClaim", "">>]_vars
    /\ [][(SuccessfulPass /\ last'.kind = "reconcile" /\ last'.i = last.i /\ last'.faults = {}) =>
             UNCHANGED <<instances, environment, children>>]_vars

\* A successful pass found the Deployment and the PVC edited: it left the
\* PVC as it was.
C18_Witness ==
    /\ SuccessfulPass
    /\ PVCKey(last.i) \in objects
    /\ PVCKey(last.i) \in edited
    /\ StepDone("reconcilePVC")
    /\ ~LogHas("write", "PersistentVolumeClaim", "")
    /\ LogHas("write", "Deployment", "")
    /\ edited = {PVCKey(last.i)}

\* Status.MCPServerCount as counted on a spec.
MCPServerCountOf(spec) == Len(spec.mcpServers) + Cardinality(DOMAIN spec.inlineMCP)

\* The last status write of the pass was the one at its end.
FinalStatusStored ==
    /\ last.kind = "reconcile"
    /\ last.err = NoError
    /\ StepDone("reconcileService")

\* C19: a pass, whatever it merges into its working copy, leaves the spec
\* of the instance it fetched as it was, in memory and as stored, and the
\* status it stores at its end counts the servers of that spec, not those of
\* the merged copy.
C19_PassKeepsFetchedSpec ==
    /\ [][\A i \in Instances :
            (last'.kind \notin {"none", "race"} /\ last'.i = i /\ instances[i].exists) =>
                /\ last'.spec = instances[i].spec
                /\ instances'[i].exists => instances'[i].spec = instances[i].spec]_vars
    /\ [](FinalStatusStored =>
            instances[last.i].mcpServerCount = MCPServerCountOf(instances[last.i].spec))

\* A pass merged the personality and the server it brings into its working
\* copy and stored its final status.
C19_Witness ==
    /\ FinalStatusStored
    /\ last.merged # instances[last.i].spec
    /\ last.spec = instances[last.i].spec
    /\ MCPServerCountOf(last.merged) > MCPServerCountOf(instances[last.i].spec)
    /\ instances[last.i].mcpServerCount = 0
    /\ instances[last.i].state = InstanceStateRunning

\* C20: the personality a pass read is, at the end of the pass, the value
\* that was read, its maps included, whatever was merged into the working
\* copy.
C20_PersonalityReadIsNotMutated ==
    last.personalityRead => last.personality = PersonalitySpec

(***************************************************************************)
(* Properties of the merge functions, read from the results in mergeOut.   *)
(***************************************************************************)
ScalarFields == {"model", "settingsFile"}
MapFields == {"inlineMCP", "hooks"}
PlainListFields == {"addDirs"}
KeyedListFields == {"plugins", "mcpServers", "mcpServerSecrets"}

\* The identity key of an entry of a keyed list field.
KeyOf(field, entry) ==
    CASE field = "plugins" -> entry.repository
      [] field = "mcpServerSecrets" -> entry.secretName
      [] OTHER -> entry

Keys(field, list) == {KeyOf(field, list[k]) : k \in DOMAIN list}

UniqueKeys(field, list) ==
    \A j, k \in DOMAIN list : KeyOf(field, list[j]) = KeyOf(field, list[k]) => j = k

\* The personality merge has run once, or twice.
MergedOnce == Len(mergeOut) >= 1

MergedTwice == Len(mergeOut) = 2 /\ mergeOut[2].call = "MergePersonalityIntoInstance"

\* C21, as claimed: merging the merged spec with the same instance spec
\* once more gives the merged spec again, in every field, the plain lists
\* included.
C21_MergeIsIdempotent ==
    MergedTwice => mergeOut[2].spec = mergeOut[1].spec

\* C21, amended: the second merge changes no scalar and no map field, and
\* no keyed list field whose list in the instance repeats no key; to a
\* plain list field it appends the instance's entries once more.
C21_IdempotentButPlainLists ==
    MergedTwice =>
        /\ \A f \in ScalarFields \cup MapFields : mergeOut[2].spec[f] = mergeOut[1].spec[f]
        /\ \A f \in KeyedListFields :
              UniqueKeys(f, mergeOverride[f]) => mergeOut[2].spec[f] = mergeOut[1].spec[f]
        /\ \A f \in PlainListFields :
              mergeOut[2].spec[f] = mergeOut[1].spec[f] \o mergeOverride[f]

\* C21 witness: both layers hold plain list entries and the second merge
\* has made the list longer.
C21_Witness ==
    /\ MergedTwice
    /\ mergeBase.addDirs # <<>>
    /\ mergeOverride.addDirs # <<>>
    /\ Len(mergeOut[2].spec.addDirs) > Len(mergeOut[1].spec.addDirs)

\* The distinct keys of a list, in the order of their first entries.
DistinctKeys(field, list) ==
    AppendUnseenRefs(<<>>, [k \in DOMAIN list |-> KeyOf(field, list[k])])

\* The keys of a list that the personality's list does not hold.
KeysNotIn(keys, field, list) ==
    LET Absent(key) == key \notin Keys(field, list)
    IN  SelectSeq(keys, Absent)

\* In the merged list of field f: a key of both layers has one entry, an
\* entry of the instance, at the place its key has among the personality's
\* keys; the keys of the instance alone follow the personality's keys in
\* the order of the instance.
OverrideWinsInPlace(f) ==
    LET b == mergeBase[f]
        o == mergeOverride[f]
        m == mergeOut[1].spec[f]
        baseKeys == DistinctKeys(f, b)
    IN  /\ \A j \in DOMAIN baseKeys :
              baseKeys[j] \in Keys(f, o) =>
                  /\ j \in DOMAIN m
                  /\ KeyOf(f, m[j]) = baseKeys[j]
                  /\ m[j] \in Range(o)
        /\ b # <<>> /\ o # <<>> =>
              DistinctKeys(f, m) = baseKeys \o KeysNotIn(DistinctKeys(f, o), f, b)

\* C22: in plugins, server references and credential sources, a key of
\* both layers keeps the personality's position and holds the instance's
\* entry, and the keys of the instance alone are appended in its order.
C22_OverrideEntryAtBasePosition ==
    MergedOnce => \A f \in KeyedListFields : OverrideWinsInPlace(f)

\* C23: in every merged spec, after the personality merge and after the
\* merge of the resolved config, no keyed list holds two entries of one
\* key, whatever the two layers held.
C23_KeyedListsHaveUniqueKeys ==
    \A k \in DOMAIN mergeOut :
        \A f \in KeyedListFields : UniqueKeys(f, mergeOut[k].spec[f])

\* The working copy has gone through both merges: it is the spec the
\* validation and the builders receive.
ResolvedMerged == Len(mergeOut) >= 2 /\ mergeOut[2].call = "MergeResolvedMCPIntoInstance"

\* No env var name is bound by two entries of the list of secrets.
EnvVarsUnique(secrets) ==
    \A j, k \in DOMAIN secrets :
        j # k => DOMAIN secrets[j].env \cap DOMAIN secrets[k].env = {}

\* C24: in the spec handed to the builders every env var name is bound by
\* at most one credential source, also when the resolution returned no
\* secret.
C24_EnvVarNamesUnique ==
    ResolvedMerged => EnvVarsUnique(mergeOut[2].spec.mcpServerSecrets)

\* The entries of a list of secrets that bind env var v.
Binding(secrets, v) == {k \in DOMAIN secrets : v \in DOMAIN secrets[k].env}

\* The last entry of the resolved secrets that binds v.
LastResolved(v) ==
    LET hits == Binding(mergeResolved.secrets, v)
    IN  mergeResolved.secrets[CHOOSE k \in hits : \A j \in hits : j <= k]

\* C25: an env var bound both inline and by a resolved secret is bound
\* once in the merged spec, to the secret and key of the resolved entry.
C25_ResolvedBindingWins ==
    ResolvedMerged =>
        \A v \in {"TOKEN_A", "TOKEN_B"} :
            /\ Binding(mergeOut[1].spec.mcpServerSecrets, v) # {}
            /\ Binding(mergeResolved.secrets, v) # {}
            => LET final == mergeOut[2].spec.mcpServerSecrets
               IN  /\ Cardinality(Binding(final, v)) = 1
                   /\ \A k \in Binding(final, v) :
                         /\ final[k].secretName = LastResolved(v).secretName
                         /\ final[k].env[v] = LastResolved(v).env[v]

\* C25 witness: TOKEN_A is bound inline to tok/k2 and by the resolution to
\* shared/k, and the merged spec binds it to shared/k.
C25_Witness ==
    /\ ResolvedMerged
    /\ mergeOut[1].spec.mcpServerSecrets = <<SecretRef("tok", "TOKEN_A", "k2")>>
    /\ mergeResolved.secrets = <<SecretRef("shared", "TOKEN_A", "k")>>
    /\ mergeOut[2].spec.mcpServerSecrets = <<SecretRef("shared", "TOKEN_A", "k")>>

\* The secret names of a list are in ascending order, none twice.
SortedBySecretName(secrets) ==
    \A j, k \in DOMAIN secrets :
        j < k => SecretNameRank(secrets[j].secretName) < SecretNameRank(secrets[k].secretName)

C27_ResolvedConfigWins ==
    ResolvedMerged =>
        LET inline == mergeOut[1].spec.inlineMCP
            final == mergeOut[2].spec.inlineMCP
        IN  /\ DOMAIN final = DOMAIN inline \cup DOMAIN mergeResolved.servers
            /\ \A name \in DOMAIN mergeResolved.servers :
                  final[name] = mergeResolved.servers[name]
            /\ \A name \in DOMAIN inline \ DOMAIN mergeResolved.servers :
                  final[name] = inline[name]

\* C27 witness: svc-a is declared inline and resolved with another config,
\* svc-b is resolved only; the merged map holds both, svc-a with the
\* resolved config.
C27_Witness ==
    /\ ResolvedMerged
    /\ DOMAIN mergeOut[1].spec.inlineMCP = {"svc-a"}
    /\ DOMAIN mergeResolved.servers = {"svc-a", "svc-b"}
    /\ mergeOut[1].spec.inlineMCP["svc-a"] # mergeResolved.servers["svc-a"]
    /\ mergeOut[2].spec.inlineMCP["svc-a"] = mergeResolved.servers["svc-a"]
    /\ DOMAIN mergeOut[2].spec.inlineMCP = {"svc-a", "svc-b"}

C29_PlainListsConcatenated ==
    MergedOnce =>
        \A f \in PlainListFields :
            /\ mergeOut[1].spec[f] = mergeBase[f] \o mergeOverride[f]
            /\ Len(mergeOut[1].spec[f]) = Len(mergeBase[f]) + Len(mergeOverride[f])

\* C29 witness: both layers list d1 before d2, and the merged list holds
\* the four entries.
C29_Witness ==
    /\ MergedOnce
    /\ mergeBase.addDirs = <<"d1", "d2">>
    /\ mergeOverride.addDirs = <<"d1", "d2">>
    /\ mergeOut[1].spec.addDirs = <<"d1", "d2", "d1", "d2">>

\* The addresses a template reaches: its struct and its Plugins array.
SharesMemory(a, b) ==
    \/ a = b
    \/ ociHeap[a].plugins # 0 /\ ociHeap[a].plugins = ociHeap[b].plugins

\* C30: every template PullPersonality returns, on a hit and on a miss,
\* shares no memory with a cache entry and held the artifact's content when
\* it was returned, and a cache entry holds the artifact's content whatever
\* the callers wrote to the templates they were handed.
C30_ReadsAreDeepCopies ==
    /\ \A d \in DOMAIN ociCache :
           Deref(ociHeap, ociArrays, ociCache[d]) = ociArtifacts[d]
    /\ \A w \in Workers :
           ociPulls[w].pc = "done" =>
               /\ ociPulls[w].returned = ociArtifacts[ociPulls[w].digest]
               /\ \A d \in DOMAIN ociCache :
                      ~SharesMemory(ociPulls[w].result, ociCache[d])

\* C30 witness: one worker wrote to the image and to a plugin of the
\* template it was handed, and a later read of the same digest, served from
\* the cache, returned the artifact's content.
C30_Witness ==
    \E w \in Workers, o \in Workers :
        /\ w # o
        /\ ociPulls[o].pc = "done"
        /\ ociPulls[o].edited
        /\ Deref(ociHeap, ociArrays, ociPulls[o].result) = [image |-> Edited, plugins |-> <<Edited, "p2">>]
        /\ ociPulls[w].pc = "done"
        /\ ociPulls[w].digest = ociPulls[o].digest
        /\ ociPulls[w].hit
        /\ ociPulls[w].afterEdit
        /\ ociPulls[w].returned = [image |-> "img", plugins |-> <<"p1", "p2">>]

\* C31 as stated: an entry stored for a digest is never replaced or
\* removed.
C31_CacheIsAppendOnly ==
    [][\A d \in DOMAIN ociCache :
           d \in DOMAIN ociCache' /\ ociCache'[d] = ociCache[d]]_vars

\* C31 as the client behaves: a digest that has an entry keeps one, and
\* the content held for it never changes; a later store for the digest
\* puts an equal entry in the place of the earlier one.
C31_CachedContentNeverChanges ==
    [][\A d \in DOMAIN ociCache :
           /\ d \in DOMAIN ociCache'
           /\ Deref(ociHeap', ociArrays', ociCache'[d]) = Deref(ociHeap, ociArrays, ociCache[d])]_vars

\* C31 witness: both workers missed on the same digest and both stored
\* their parsed spec; the cache holds the later one, with the artifact's
\* plugins.
C31_Witness ==
    /\ \A w \in Workers :
           /\ ociPulls[w].pc = "done"
           /\ ociPulls[w].digest = "sha-a"
           /\ ~ociPulls[w].hit
    /\ "sha-a" \in DOMAIN ociCache
    /\ ociCache["sha-a"] = 3
    /\ Deref(ociHeap, ociArrays, ociCache["sha-a"]).plugins = <<"p1", "p2">>

\* C32: the pass that attaches the finalizer does nothing else. It stores
\* the finalizer on the instance (or nothing, when the update fails),
\* writes no status, records no event, and creates, changes or deletes no
\* namespace, dependent object or credential copy.
C32_FinalizerPassDoesNothingElse ==
    [][last'.kind = "finalizer" =>
          /\ <<namespaces, objects, mcpSecrets, available, edited>>'
                = <<namespaces, objects, mcpSecrets, available, edited>>
          /\ \A i \in Instances :
                instances'[i] = IF i = last'.i /\ last'.err = NoError
                                THEN [instances[i] EXCEPT !.finalizer = TRUE]
                                ELSE instances[i]
          /\ last'.events = {}
          /\ \A e \in Range(last'.log) : e = <<"ok", "AddFinalizer", "">>]_vars

\* C32 witness: a pass has stored the finalizer on a new instance, which
\* has no state yet and no namespace.
C32_Witness ==
    /\ last.kind = "finalizer"
    /\ last.err = NoError
    /\ instances[last.i].exists
    /\ instances[last.i].finalizer
    /\ instances[last.i].state = ""
    /\ namespaces = {}
    /\ objects = {}

\* The secrets declared by the KlausMCPServers that the merged spec of the
\* most recent pass names: the instance's own references and those of its
\* personality.
EffectiveSecrets ==
    UNION {ServerSecretNames(servers, r) : r \in Range(last.merged.mcpServers)}

\* C33: after a pass whose resolution of the KlausMCPServers succeeded,
\* every secret declared by a server of the merged reference list, the
\* personality's references included, is in the user namespace, and the
\* cleanup of the pass deleted none of them.
C33_EffectiveCredentialsSurviveCleanup ==
    (/\ last.kind = "reconcile"
     /\ StepDone("resolveMCPServers")) =>
        \A n \in EffectiveSecrets :
            /\ <<UserNamespace(last.merged.owner), n>> \in mcpSecrets
            /\ n \notin GCDeleted

\* Instance i is there and not deleting, and the most recent change of the
\* cluster was a pass of the controller for it: the user has not touched
\* it since.
ReconciledUntouched(i) ==
    /\ instances[i].exists
    /\ ~instances[i].deleting
    /\ last.kind \in {"finalizer", "reconcile"}
    /\ last.i = i

\* The spec names a KlausMCPServer, itself or through its personality.
HasEffectiveReference(spec) == spec.mcpServers # <<>> \/ spec.personalityRef # ""

\* C34: an instance whose user namespace does not exist yet and whose
\* effective spec names a ready KlausMCPServer with secretRefs reaches
\* Running when it is reconciled again and again, unless the user changes
\* or deletes it first.
C34_ReachesRunningWithoutNamespace ==
    (/\ ReconciledUntouched("i1")
     /\ HasEffectiveReference(instances["i1"].spec)
     /\ UserNamespace(instances["i1"].spec.owner) \notin namespaces)
        ~> (\/ instances["i1"].state = InstanceStateRunning
            \/ last.kind = "none")

\* The most recent pass ended in resolveMCPServers at a reference that
\* could not be fetched or was not ready, or at a secret that could not be
\* copied.
ResolutionAborted ==
    /\ last.kind = "reconcile"
    /\ last.err.reason = "MCPServerRefError"
    /\ last.err.message[1] \in {"resolving MCP server", "MCP server is not ready",
                                "copying MCP secret"}

\* Does the loop stop at refs[k] with the error of the pass?
AbortsAt(refs, k) ==
    IF last.err.message[1] = "copying MCP secret"
    THEN last.err.message[2] \in ServerSecretNames(servers, refs[k])
    ELSE refs[k] = last.err.message[2]

\* The position in the merged reference list at which the loop stopped.
AbortIndex ==
    LET refs == last.merged.mcpServers
    IN  CHOOSE k \in DOMAIN refs :
            AbortsAt(refs, k) /\ \A j \in 1..(k - 1) : ~AbortsAt(refs, j)

\* The copies the pass wrote for references ahead of the one it stopped
\* at, as <<namespace, secret name>>.
CopiesForEarlierReferences ==
    {<<UserNamespace(last.merged.owner), last.log[k][3]>> :
        k \in {j \in DOMAIN last.log :
                 /\ last.log[j][1] = "copy"
                 /\ \E e \in 1..(AbortIndex - 1) :
                        last.merged.mcpServers[e] = last.log[j][2]}}

\* C35 as stated: when the resolution aborts at a reference, the pass has
\* created no copy for the references ahead of it: every copy it wrote for
\* them was in the user namespace before the pass.
C35_AbortCreatesNoCopies ==
    [][ResolutionAborted' => CopiesForEarlierReferences' \subseteq mcpSecrets]_vars

\* C35 as the controller behaves: when the resolution aborts at a
\* reference, the copies the pass wrote are for the references up to that
\* one, none for a later one, and all of them are in the user namespace
\* after the pass; nothing is merged into the working copy.
C35_AbortKeepsEarlierCopies ==
    ResolutionAborted =>
        /\ \A k \in DOMAIN last.log :
              last.log[k][1] = "copy" =>
                 /\ \E e \in 1..AbortIndex : last.merged.mcpServers[e] = last.log[k][2]
                 /\ <<UserNamespace(last.merged.owner), last.log[k][3]>> \in mcpSecrets
        /\ last.merged = last.mergedV1

\* C35 witness: the loop copied the secret of svc-a and stopped at svc-b,
\* which does not exist; the copy is in the user namespace.
C35_Witness ==
    /\ ResolutionAborted
    /\ last.merged.mcpServers = <<"svc-a", "svc-b">>
    /\ last.err.message = <<"resolving MCP server", "svc-b">>
    /\ AbortIndex = 2
    /\ LogHas("copy", "svc-a", "shared")
    /\ CopiesForEarlierReferences = {<<UserNamespace(last.merged.owner), "shared">>}
    /\ CopiesForEarlierReferences \subseteq mcpSecrets

\* C36: when a deletion pass has removed the finalizer, so that the
\* instance is gone, no object that a pass created for the instance is
\* left, whatever the user did to its spec while it lived.
C36_NoChildOutlivesInstance ==
    (/\ last.kind = "delete"
     /\ LogHas("ok", "RemoveFinalizer", "")
     /\ ~instances[last.i].exists) =>
        objects = {}

\* The copies in the user namespace of i that no reference of a live
\* instance of that namespace declares, while i is live.
StaleCopies(i) ==
    IF instances[i].exists /\ ~instances[i].deleting
    THEN LET namespace == UserNamespace(instances[i].spec.owner)
         IN  {key \in mcpSecrets :
                /\ key[1] = namespace
                /\ key[2] \notin DesiredMCPSecrets(instances, servers, namespace)}
    ELSE {}

\* C37: a copy of the shared credential that no live instance of the owner
\* references any more is eventually deleted from the user namespace (or
\* referenced again, or the instance is deleted), also when the instance
\* has dropped its last reference.
C37_StaleCopyEventuallyDeleted ==
    (<<UserNamespace(<<"a">>), "shared">> \in StaleCopies("i1"))
        ~> (<<UserNamespace(<<"a">>), "shared">> \notin StaleCopies("i1"))

\* The pass recorded the override event for the server named r.
OverrideEventFor(r) ==
    <<"Normal", "MCPServerOverride", <<"overrides inline MCP server config", r>>>>
        \in last.events

\* The resolution of the pass succeeded and replaced the inline entry r by
\* a config of another value.
OverrideChangesValue(r) ==
    /\ LogHas("ok", "resolveMCPServers", "")
    /\ r \in Range(last.merged.mcpServers)
    /\ r \in DOMAIN last.mergedV1.inlineMCP
    /\ r \in DOMAIN last.merged.inlineMCP
    /\ last.merged.inlineMCP[r] # last.mergedV1.inlineMCP[r]

\* C38: a pass emits the override event for a name exactly when a resolved
\* KlausMCPServer replaced the inline config of that name by a different
\* value; not when the two are equal and not when there is no inline entry.
C38_OverrideEventExactlyOnChange ==
    last.kind = "reconcile" =>
        \A r \in Servers : OverrideEventFor(r) <=> OverrideChangesValue(r)

\* C39: the status a pass stores at its end counts the MCP servers of the
\* merged spec, those contributed by the personality and by resolved
\* KlausMCPServers included.
C39_StatusCountsMergedSpec ==
    FinalStatusStored =>
        instances[last.i].mcpServerCount = MCPServerCountOf(last.merged)

\* C40: the user namespace a pass has created for an instance is the user
\* namespace of no instance of another owner, so that instances of
\* different owners share no child object, no copied credential and no
\* cleanup.
C40_DistinctOwnersDistinctNamespaces ==
    \A i, j \in Instances :
        (/\ instances[i].exists
         /\ instances[j].exists
         /\ instances[i].spec.owner # instances[j].spec.owner
         /\ UserNamespace(instances[i].spec.owner) \in namespaces) =>
            UserNamespace(instances[i].spec.owner) # UserNamespace(instances[j].spec.owner)

====
